---- MODULE Spec2Model ----
(***************************************************************************)
(* A model of livecc: the dirty propagation over the dependency graph      *)
(* (dependency_tree.cpp), the parallel compile scheduler (compile.cpp on   *)
(* thread_pool.hpp) and the live patch engine (main.cpp, source_file.cpp). *)
(***************************************************************************)
EXTENDS Integers, Sequences, FiniteSets, TLC

(***************************************************************************)
(* Bounds of the model.                                                    *)
(***************************************************************************)
\* number of records in the file list
NumFiles == 3
\* most edges (parent, child) of a graph
MaxEdges == 3
\* most files whose compiler command exits non-zero
MaxFailing == 1
\* most includes whose file is not found
MaxMissing == 1
\* runs of the build driver in one behaviour
MaxRuns == 2
\* Context::Settings::job_count, the number of pool workers
JobCount == 2

Node == 0 .. (NumFiles - 1)
Worker == 1 .. JobCount
\* thread 0 is the thread that calls compile_all
MainThread == 0
Thread == {MainThread} \cup Worker

VARIABLES
    \* SourceFile fields
    parents,            \* [Node -> Seq(Node)]
    children,           \* [Node -> Seq(Node)]
    source_time,        \* [Node -> {} or {t}]   std::optional: {} is absent
    compiled_time,      \* [Node -> {} or {t}]
    need_compile,       \* [Node -> BOOLEAN]
    \* the outcome the compiler process has for each file (its exit status is 0)
    compiler_ok,        \* [Node -> BOOLEAN]
    \* Compiler::FileInfo
    failed,             \* [Node -> BOOLEAN]
    compiled_parents,   \* [Node -> Nat]
    \* ThreadPool
    tasks,              \* Seq(Node): the queue of compile tasks
    stop,
    got_error,
    number_working,
    wstate,             \* [Worker -> "wait" | "task" | "mark" | "finish" | "exited"]
    wfile,              \* [Worker -> Node]: the file of the task a worker runs
    werr,               \* [Worker -> BOOLEAN]: the task's return value
    \* the call stack of mark_compiled per thread: frames <<file, next child index>>
    stack,              \* [Thread -> Seq(<<Node, Nat>>)]
    \* compile_all on the calling thread
    mainpc,             \* "add" | "join" | "threads" | "check" | "done"
    mainidx,            \* the loop variable i of the enqueueing loop
    result,             \* "none" | "OK" | "FAILED"
    cycle_report,       \* Seq(Seq(Node)): the lines printed under "circular dependencies
                        \* found:", each the file names in the order they are printed
    \* the build driver and the file system around it
    kind,               \* [Node -> SourceType]
    disk_source,        \* [Node -> {} or {t}]: mtime of the source file on disk
    disk_artifact,      \* [Node -> {} or {t}]: mtime of compiled_path on disk
    output_exists,      \* the final artifact (context.output_file) exists
    clock,              \* the file system's time
    run,                \* the number of the current run of the build driver
    compile_count,      \* compile_and_link's compile_count
    linked,             \* the link step ran in this run
    prev_ok,            \* the previous run compiled and linked successfully
    change,             \* what changed on disk since the previous run
    \* the live patch engine
    last_write_time,    \* [Node -> {} or {t}]: SourceFile::last_write_time
    latest_dll,         \* [Node -> path]: SourceFile::latest_dll
    path_index,         \* Main::path_index
    loaded_handles,     \* Seq(handle): context.loaded_handles
    temporary_files,    \* Seq(path): context.temporary_files
    plt,                \* [Node -> image]: the PLT entry of the symbol each file defines
    files_on_disk,      \* [path -> {} or {image}]: the images that exist on disk
    livepc,             \* "off" | "running" | "closed"
    closed_handles,     \* history: the handles given to dlclose
    ever_loaded,        \* history: the handles pushed, in order
    removed_files,      \* history: the paths given to fs::remove at shutdown
    last_tick,          \* history: what the last call of update did
    live_failed,        \* history: [Node -> BOOLEAN]: a live compile of the file failed
                        \* and its source was not written or deleted since
    \* the graph build: DependencyTree::build and DependencyTreeBuilder
    files,              \* Seq(record): tree.files; file i of the code is files[i + 1]
    source_map,         \* [key -> file index]: builder.source_map
    files_mutex,        \* the threads that hold builder.files_mutex shared
    wdep,               \* [Worker -> Nat]: the position of a scan in its dependencies
    wheader,            \* [Worker -> file index]: the local variable header of a scan
    scan_of,            \* [path -> scan result]: what read_dependencies finds in a file
    build_log,          \* history: the errors given to context.log.error
    scanned,            \* history: the files whose scan has run, in order
    \* history of the run
    started,            \* files whose compile step has started
    succeeded,          \* files whose compile step returned OK
    passed,             \* files handled as a pass-through
    queued,             \* [Node -> Nat]: calls of add_to_compile_queue per file
    \* the include scanner: struct Parser
    scan_input,         \* Seq(0 .. 255): the bytes of the file behind the stream f
    parser,             \* record: the fields of Parser, its position in parse()
                        \* and the history of its reads and writes
    \* the stored build command: Main::initialise
    command,            \* record: command.txt, context.build_command and
                        \* context.build_command_changed of this run
    \* the module mapper: module_mapper_pipe.cpp
    mapper              \* record: the request read and the reply written

vars == <<parents, children, source_time, compiled_time, need_compile, compiler_ok,
          failed, compiled_parents, tasks, stop, got_error, number_working,
          wstate, wfile, werr, stack, mainpc, mainidx, result, cycle_report,
          kind, disk_source, disk_artifact, output_exists, clock, run,
          compile_count, linked, prev_ok, change,
          last_write_time, latest_dll, path_index, loaded_handles, temporary_files,
          plt, files_on_disk, livepc, closed_handles, ever_loaded, removed_files,
          last_tick, live_failed,
          files, source_map, files_mutex, wdep, wheader, scan_of, build_log, scanned,
          started, succeeded, passed, queued, scan_input, parser,
          command, mapper>>

graphVars == <<parents, children, kind, compiler_ok>>
fileVars == <<source_time, need_compile>>
poolVars == <<tasks, stop, got_error, number_working>>
workerVars == <<wstate, wfile, werr>>
infoVars == <<failed, compiled_parents>>
histVars == <<started, succeeded, passed, queued>>
diskVars == <<disk_source, disk_artifact, output_exists, clock>>
runVars == <<run, compile_count, linked, prev_ok, change>>
liveVars == <<last_write_time, latest_dll, path_index, loaded_handles, temporary_files,
              plt, files_on_disk, livepc, closed_handles, ever_loaded, removed_files,
              last_tick, live_failed>>
treeVars == <<files, source_map, files_mutex, wdep, wheader, scan_of, build_log, scanned>>
scanVars == <<scan_input, parser>>
cmdVars == <<command>>
mapperVars == <<mapper>>
\* all that only the scanner, the driver's start and the module mapper change
auxVars == <<scanVars, cmdVars, mapperVars>>
\* all that only the build driver and its scheduler change
buildVars == <<treeVars, parents, children, compiler_ok, source_time, compiled_time, need_compile,
               failed, compiled_parents, tasks, stop, got_error, number_working,
               wstate, wfile, werr, stack, mainpc, mainidx, result, cycle_report,
               disk_artifact, output_exists, run, compile_count, linked, prev_ok, change,
               started, succeeded, passed, queued>>

(***************************************************************************)
(* Helpers on sets and sequences.                                          *)
(***************************************************************************)
RECURSIVE SetToSeq(_)
SetToSeq(S) ==
    IF S = {} THEN <<>>
    ELSE LET m == CHOOSE x \in S : \A y \in S : x <= y
         IN <<m>> \o SetToSeq(S \ {m})

Range(s) == {s[i] : i \in 1 .. Len(s)}

\* parents / children lists of a graph given as a set of edges <<parent, child>>
ParentsOf(E) == [c \in Node |-> SetToSeq({p \in Node : <<p, c>> \in E})]
ChildrenOf(E) == [p \in Node |-> SetToSeq({c \in Node : <<p, c>> \in E})]

\* the graphs: a record is no parent of itself, cycles through two or more are in
Edges == {e \in Node \X Node : e[1] # e[2]}
Graphs == {E \in SUBSET Edges : Cardinality(E) <= MaxEdges}

(***************************************************************************)
(* Dirty propagation: DependencyTree::need_compilation.  The state the     *)
(* recursion threads through is [nc |-> the need_compile flags, vis |->    *)
(* the visited flags (SourceFile::_temporary), cnt |-> the compile count]. *)
(***************************************************************************)
\* the test with >= for >
is_out_of_date_or_equal(st, ct) ==
    \/ ct = {}
    \/ (st # {} /\ \E s \in st : \E c \in ct : s >= c)

\* the test of check_file_for_compilation on one record's two times
is_out_of_date(st, ct) ==
    \/ ct = {}
    \/ (st # {} /\ \E s \in st : \E c \in ct : s > c)

RECURSIVE mark_file_for_compilation(_, _, _), mark_children(_, _, _, _)
\* the marker without its recursion into the children
mark_file_only(ch, s, file) == [s EXCEPT !.nc[file] = TRUE, !.cnt = @ + 1]

mark_file_for_compilation(ch, s, file) ==
    mark_children(ch, [s EXCEPT !.nc[file] = TRUE, !.cnt = @ + 1], file, 1)

mark_children(ch, s, file, k) ==
    IF k > Len(ch[file]) THEN s
    ELSE LET child == ch[file][k]
         IN mark_children(ch,
                IF ~s.nc[child] THEN mark_file_for_compilation(ch, s, child) ELSE s,
                file, k + 1)

RECURSIVE check_file_for_compilation(_, _, _, _, _), check_children(_, _, _, _, _, _)
check_file_for_compilation(ch, st, ct, s, file) ==
    LET s1 == [s EXCEPT !.vis[file] = TRUE]
    IN IF is_out_of_date(st[file], ct[file])
       THEN mark_file_for_compilation(ch, s1, file)
       ELSE check_children(ch, st, ct, s1, file, 1)

check_children(ch, st, ct, s, file, k) ==
    IF k > Len(ch[file]) THEN s
    ELSE LET child == ch[file][k]
         IN check_children(ch, st, ct,
                IF ~s.nc[child] /\ ~s.vis[child]
                THEN check_file_for_compilation(ch, st, ct, s, child) ELSE s,
                file, k + 1)

RECURSIVE check_roots(_, _, _, _, _, _)
check_roots(par, ch, st, ct, s, i) ==
    IF i >= NumFiles THEN s
    ELSE check_roots(par, ch, st, ct,
            IF Len(par[i]) = 0 THEN check_file_for_compilation(ch, st, ct, s, i) ELSE s,
            i + 1)

\* the record after the call: .nc is need_compile, .cnt # 0 is the return value
need_compilation(par, ch, st, ct) ==
    check_roots(par, ch, st, ct,
        [nc |-> [n \in Node |-> FALSE], vis |-> [n \in Node |-> FALSE], cnt |-> 0], 0)

(***************************************************************************)
(* SourceType and its predicates.                                          *)
(***************************************************************************)
compile_to_timestamp(t) == t \in {"HEADER", "SYSTEM_HEADER", "BARE_INCLUDE", "OBJECT"}

is_include(t) == t \notin {"UNIT", "C_UNIT", "MODULE", "OBJECT"}

(***************************************************************************)
(* compile_file: the new compiled_time of the record, the new mtime of its *)
(* artifact on disk, and the ErrorCode (TRUE is OK).  ok is the outcome of *)
(* the external step: the stream opened, or the compiler exited with 0.    *)
(***************************************************************************)
\* fs::fs_last_write_time(path, ec) of a missing file is file_time_type::min()
fs_last_write_time(mtime) == IF mtime = {} THEN {0} ELSE mtime

\* compile_file that does not create the marker file of a timestamp kind
compile_file_no_marker(t, ok, st, dsrc, dart, now) ==
    IF compile_to_timestamp(t)
    THEN [time |-> st, art |-> dart, ok |-> ok]
    ELSE IF ~ok
    THEN [time |-> st, art |-> {}, ok |-> FALSE]
    ELSE [time |-> fs_last_write_time(dsrc), art |-> {now}, ok |-> TRUE]

compile_file(t, ok, st, dsrc, dart, now) ==
    IF compile_to_timestamp(t)
    THEN [time |-> st, art |-> IF ok THEN {now} ELSE dart, ok |-> ok]
    ELSE IF ~ok
    THEN [time |-> st, art |-> {}, ok |-> FALSE]
    ELSE [time |-> fs_last_write_time(dsrc), art |-> {now}, ok |-> TRUE]

(***************************************************************************)
(* The scheduler: struct Compiler on a ThreadPool.                         *)
(***************************************************************************)
\* leave the frames of mark_compiled whose loop over the children has ended
RECURSIVE PopDone(_)
PopDone(fr) ==
    IF fr # <<>> /\ fr[Len(fr)][2] > Len(children[fr[Len(fr)][1]])
    THEN PopDone(SubSeq(fr, 1, Len(fr) - 1))
    ELSE fr

\* Compiler::add_to_compile_queue(file) called on thread th, whose stack is fr
add_to_compile_queue(th, file, fr) ==
    /\ queued' = [queued EXCEPT ![file] = @ + 1]
    /\ IF need_compile[file]
       THEN /\ tasks' = Append(tasks, file)
            /\ stack' = [stack EXCEPT ![th] = PopDone(fr)]
            /\ passed' = passed
       ELSE /\ tasks' = tasks
            /\ stack' = [stack EXCEPT ![th] = PopDone(Append(fr, <<file, 1>>))]
            /\ passed' = passed \cup {file}

\* mark_compiled that takes the first compiled parent for all of them
mark_compiled_first_parent(th) ==
    LET fr == stack[th]
        file == fr[Len(fr)][1]
        k == fr[Len(fr)][2]
        child == children[file][k]
        cp == compiled_parents[child] + 1
        fr1 == [fr EXCEPT ![Len(fr)] = <<file, k + 1>>]
    IN /\ compiled_parents' = [compiled_parents EXCEPT ![child] = cp]
       /\ IF cp = 1
          THEN add_to_compile_queue(th, child, fr1)
          ELSE /\ stack' = [stack EXCEPT ![th] = PopDone(fr1)]
               /\ UNCHANGED <<tasks, passed, queued>>

\* mark_compiled that enqueues the child at every parent that is compiled
mark_compiled_every_parent(th) ==
    LET fr == stack[th]
        file == fr[Len(fr)][1]
        k == fr[Len(fr)][2]
        child == children[file][k]
        cp == compiled_parents[child] + 1
        fr1 == [fr EXCEPT ![Len(fr)] = <<file, k + 1>>]
    IN /\ compiled_parents' = [compiled_parents EXCEPT ![child] = cp]
       /\ add_to_compile_queue(th, child, fr1)

\* one iteration of the loop of Compiler::mark_compiled on thread th
mark_compiled(th) ==
    LET fr == stack[th]
        file == fr[Len(fr)][1]
        k == fr[Len(fr)][2]
        child == children[file][k]
        cp == compiled_parents[child] + 1
        fr1 == [fr EXCEPT ![Len(fr)] = <<file, k + 1>>]
    IN /\ compiled_parents' = [compiled_parents EXCEPT ![child] = cp]
       /\ IF cp = Len(parents[child])
          THEN add_to_compile_queue(th, child, fr1)
          ELSE /\ stack' = [stack EXCEPT ![th] = PopDone(fr1)]
               /\ UNCHANGED <<tasks, passed, queued>>

\* the task calls mark_compiled(file) only when compile_file returned OK
frames_after_compile_always(file, ok) == PopDone(<<<<file, 1>>>>)

frames_after_compile(file, ok) == IF ok THEN PopDone(<<<<file, 1>>>>) ELSE <<>>

\* a worker takes the next task from the queue
WorkerTake(w) ==
    /\ wstate[w] = "wait"
    /\ tasks # <<>>
    /\ wstate' = [wstate EXCEPT ![w] = "task"]
    /\ wfile' = [wfile EXCEPT ![w] = Head(tasks)]
    /\ tasks' = Tail(tasks)
    /\ number_working' = number_working + 1
    /\ started' = started \cup {Head(tasks)}
    /\ UNCHANGED <<graphVars, fileVars, compiled_time, infoVars, stop, got_error, werr,
                   stack, mainpc, mainidx, result, diskVars, runVars,
                   succeeded, passed, queued>>
    /\ UNCHANGED <<auxVars, liveVars, treeVars, cycle_report>>

\* a worker leaves its loop: the pool is stopped and the queue is empty
WorkerExit(w) ==
    /\ wstate[w] = "wait"
    /\ stop /\ tasks = <<>>
    /\ wstate' = [wstate EXCEPT ![w] = "exited"]
    /\ UNCHANGED <<graphVars, fileVars, compiled_time, infoVars, poolVars, wfile, werr,
                   stack, mainpc, mainidx, result, diskVars, runVars, histVars>>
    /\ UNCHANGED <<auxVars, liveVars, treeVars, cycle_report>>

\* the task of add_to_compile_queue up to the return of compile_file
WorkerCompile(w) ==
    /\ wstate[w] = "task"
    /\ LET file == wfile[w]
           r == compile_file(kind[file], compiler_ok[file], source_time[file],
                             disk_source[file], disk_artifact[file], clock)
       IN /\ compiled_time' = [compiled_time EXCEPT ![file] = r.time]
          /\ disk_artifact' = [disk_artifact EXCEPT ![file] = r.art]
          /\ werr' = [werr EXCEPT ![w] = ~r.ok]
          /\ succeeded' = IF r.ok THEN succeeded \cup {file} ELSE succeeded
          /\ failed' = [failed EXCEPT ![file] = ~r.ok]
          /\ stack' = [stack EXCEPT ![w] = frames_after_compile(file, r.ok)]
          /\ wstate' = [wstate EXCEPT ![w] = IF stack'[w] = <<>> THEN "finish" ELSE "mark"]
    /\ UNCHANGED <<graphVars, fileVars, compiled_parents, poolVars, wfile,
                   mainpc, mainidx, result, disk_source, output_exists, clock, runVars,
                   started, passed, queued>>
    /\ UNCHANGED <<auxVars, liveVars, treeVars, cycle_report>>

\* the task goes on in mark_compiled
WorkerMark(w) ==
    /\ wstate[w] = "mark"
    /\ mark_compiled(w)
    /\ wstate' = [wstate EXCEPT ![w] = IF stack'[w] = <<>> THEN "finish" ELSE "mark"]
    /\ UNCHANGED <<graphVars, fileVars, compiled_time, failed, stop, got_error,
                   number_working, wfile, werr, mainpc, mainidx, result,
                   diskVars, runVars, started, succeeded>>
    /\ UNCHANGED <<auxVars, liveVars, treeVars, cycle_report>>

\* the task has returned: the worker books it and stops the pool on an error
WorkerFinish(w) ==
    /\ wstate[w] = "finish"
    /\ number_working' = number_working - 1
    /\ got_error' = (got_error \/ werr[w])
    /\ stop' = (stop \/ werr[w])
    /\ wstate' = [wstate EXCEPT ![w] = "wait"]
    /\ UNCHANGED <<graphVars, fileVars, compiled_time, infoVars, tasks, wfile, werr,
                   stack, mainpc, mainidx, result, diskVars, runVars, histVars>>
    /\ UNCHANGED <<auxVars, liveVars, treeVars, cycle_report>>

(***************************************************************************)
(* compile_all on the calling thread.                                      *)
(***************************************************************************)
\* one iteration of the loop that enqueues the files without parents
MainAdd ==
    /\ mainpc = "add"
    /\ stack[MainThread] = <<>>
    /\ mainidx < NumFiles
    /\ mainidx' = mainidx + 1
    /\ IF Len(parents[mainidx]) = 0
       THEN add_to_compile_queue(MainThread, mainidx, <<>>)
       ELSE UNCHANGED <<tasks, stack, passed, queued>>
    /\ UNCHANGED <<graphVars, fileVars, compiled_time, infoVars, stop, got_error,
                   number_working, workerVars, mainpc, result, diskVars, runVars,
                   started, succeeded>>
    /\ UNCHANGED <<auxVars, liveVars, treeVars, cycle_report>>

\* mark_compiled of a pass-through file, run by the calling thread
MainMark ==
    /\ mainpc = "add"
    /\ stack[MainThread] # <<>>
    /\ mark_compiled(MainThread)
    /\ UNCHANGED <<graphVars, fileVars, compiled_time, failed, stop, got_error,
                   number_working, workerVars, mainpc, mainidx, result,
                   diskVars, runVars, started, succeeded>>
    /\ UNCHANGED <<auxVars, liveVars, treeVars, cycle_report>>

\* the loop is over: compile_all calls pool.join()
MainCallJoin ==
    /\ mainpc = "add"
    /\ stack[MainThread] = <<>>
    /\ mainidx = NumFiles
    /\ mainpc' = "join"
    /\ UNCHANGED <<graphVars, fileVars, compiled_time, infoVars, poolVars, workerVars,
                   stack, mainidx, result, diskVars, runVars, histVars>>
    /\ UNCHANGED <<auxVars, liveVars, treeVars, cycle_report>>

\* ThreadPool::join: the wait on the condition, then stop = true
MainJoinWait ==
    /\ mainpc = "join"
    /\ (tasks = <<>> /\ number_working = 0) \/ stop
    /\ stop' = TRUE
    /\ mainpc' = "threads"
    /\ UNCHANGED <<graphVars, fileVars, compiled_time, infoVars, tasks, got_error,
                   number_working, workerVars, stack, mainidx, result,
                   diskVars, runVars, histVars>>
    /\ UNCHANGED <<auxVars, liveVars, treeVars, cycle_report>>

\* ThreadPool::join: every worker thread has been joined
MainJoinThreads ==
    /\ mainpc = "threads"
    /\ \A w \in Worker : wstate[w] = "exited"
    /\ mainpc' = "check"
    /\ UNCHANGED <<graphVars, fileVars, compiled_time, infoVars, poolVars, workerVars,
                   stack, mainidx, result, diskVars, runVars, histVars>>
    /\ UNCHANGED <<auxVars, liveVars, treeVars, cycle_report>>

\* depends_on(files, file, dependency) from child k of dependency on: "yes", "no",
\* or "overflow" when a call is reached again from within itself, which recurses
\* until the stack is exhausted.  onpath holds the dependencies of the calls that
\* are running.
RECURSIVE depends_on(_, _, _, _)
depends_on(file, dependency, k, onpath) ==
    IF k > Len(children[dependency]) THEN "no"
    ELSE LET child == children[dependency][k]
             sub == IF child \in onpath THEN "overflow"
                    ELSE depends_on(file, child, 1, onpath \cup {child})
         IN IF child = file THEN "yes"
            ELSE IF sub \in {"yes", "overflow"} THEN sub
            ELSE depends_on(file, dependency, k + 1, onpath)

\* depends_on_print: the same walk; out is the file names in the order of the calls
\* of log.print
RECURSIVE depends_on_print(_, _, _, _)
depends_on_print(file, dependency, k, onpath) ==
    IF k > Len(children[dependency]) THEN [res |-> "no", out |-> <<>>]
    ELSE LET child == children[dependency][k]
             sub == IF child \in onpath THEN [res |-> "overflow", out |-> <<>>]
                    ELSE depends_on_print(file, child, 1, onpath \cup {child})
         IN IF child = file THEN [res |-> "yes", out |-> <<child>>]
            ELSE IF sub.res = "yes" THEN [res |-> "yes", out |-> Append(sub.out, child)]
            ELSE IF sub.res = "overflow" THEN sub
            ELSE depends_on_print(file, dependency, k + 1, onpath)

\* compile_all: the loop that looks for circular dependencies, from file i on; out
\* is the lines printed so far
RECURSIVE circular_dependencies(_, _)
circular_dependencies(i, out) ==
    IF i >= NumFiles THEN [res |-> "done", out |-> out]
    ELSE IF compiled_parents[i] < Len(parents[i])
    THEN LET d == depends_on(i, i, 1, {i})
         IN IF d = "overflow" THEN [res |-> "overflow", out |-> out]
            ELSE IF d = "yes"
            THEN circular_dependencies(i + 1,
                     Append(out, Append(depends_on_print(i, i, 1, {i}).out, i)))
            ELSE circular_dependencies(i + 1, out)
    ELSE circular_dependencies(i + 1, out)

some_failed == \E i \in Node : failed[i]

\* the check with the test on failed inverted
some_missing_dependencies_of_failed ==
    \E i \in Node : failed[i] /\ compiled_parents[i] < Len(parents[i])

some_missing_dependencies ==
    \E i \in Node : ~failed[i] /\ compiled_parents[i] < Len(parents[i])

\* the check for errors that ends compile_all
MainCheck ==
    /\ mainpc = "check"
    /\ LET rep == circular_dependencies(0, <<>>)
       IN IF some_failed \/ ~some_missing_dependencies
          THEN /\ result' = IF some_failed THEN "FAILED" ELSE "OK"
               /\ mainpc' = "link"
               /\ UNCHANGED cycle_report
          ELSE IF rep.res = "overflow"
          THEN /\ mainpc' = "crashed"
               /\ UNCHANGED <<result, cycle_report>>
          ELSE /\ result' = "FAILED"
               /\ mainpc' = "link"
               /\ cycle_report' = rep.out
    /\ UNCHANGED <<graphVars, fileVars, compiled_time, infoVars, poolVars, workerVars,
                   stack, mainidx, diskVars, runVars, histVars>>
    /\ UNCHANGED <<auxVars, liveVars, treeVars>>

(***************************************************************************)
(* The build driver: Main::compile_and_link, run after run.                *)
(***************************************************************************)
\* the records are constructed: their two times are read from the disk
LoadFiles ==
    /\ mainpc = "load"
    /\ source_time' = disk_source
    /\ compiled_time' = disk_artifact
    /\ need_compile' = [n \in Node |-> FALSE]
    /\ mainpc' = "plan"
    /\ UNCHANGED <<graphVars, infoVars, poolVars, workerVars, stack, mainidx, result,
                   diskVars, runVars, histVars>>
    /\ UNCHANGED <<auxVars, liveVars, treeVars, cycle_report>>

\* the plan is made; with a plan compile_all starts and constructs its pool
Plan ==
    /\ mainpc = "plan"
    /\ LET r == need_compilation(parents, children, source_time, compiled_time)
       IN /\ need_compile' = r.nc
          /\ compile_count' = r.cnt
          /\ mainpc' = IF r.cnt # 0 THEN "add" ELSE "link"
          /\ wstate' = [w \in Worker |-> IF r.cnt # 0 THEN "wait" ELSE "exited"]
    /\ UNCHANGED <<graphVars, source_time, compiled_time, infoVars, poolVars, wfile, werr,
                   stack, mainidx, result, diskVars, run, linked, prev_ok, change,
                   histVars>>
    /\ UNCHANGED <<auxVars, liveVars, treeVars, cycle_report>>

\* the linker can succeed only on artifacts that exist: the link command names the
\* artifact of every record that is not an include
LinkInputsExist ==
    /\ \E n \in Node : ~is_include(kind[n])
    /\ \A n \in Node : ~is_include(kind[n]) => disk_artifact[n] # {}

\* the link step is taken only after a compilation
do_link_after_compile == compile_count # 0

\* bool do_link = compile_count != 0u || !fs::exists(context.output_file)
do_link == compile_count # 0 \/ ~output_exists

\* compile_and_link after the compilation: return on a failure, else link if needed
Link ==
    /\ mainpc = "link"
    /\ mainpc' = "end"
    /\ IF compile_count # 0 /\ result = "FAILED"
       THEN UNCHANGED <<linked, output_exists>>
       ELSE IF do_link
            THEN \E ok \in {FALSE, LinkInputsExist} :
                    /\ linked' = IF ok THEN "ok" ELSE "failed"
                    /\ output_exists' = (output_exists \/ ok)
            ELSE UNCHANGED <<linked, output_exists>>
    /\ UNCHANGED <<graphVars, fileVars, compiled_time, infoVars, poolVars, workerVars,
                   stack, mainidx, result, disk_source, disk_artifact, clock,
                   run, compile_count, prev_ok, change, histVars>>
    /\ UNCHANGED <<auxVars, liveVars, treeVars, cycle_report>>

\* this run compiled all it had to and linked if it had to
RunOk ==
    /\ compile_count = 0 \/ result = "OK"
    /\ linked # "failed"

NoChange == [op |-> "none", file |-> 0]
Changes ==
    {NoChange, [op |-> "rmout", file |-> 0]} \cup {[op |-> "touch", file |-> n] : n \in Node}

\* between two runs: the user may edit one source or delete the final artifact;
\* then the driver is started again
NewRun ==
    /\ mainpc = "end"
    /\ run < MaxRuns
    /\ \E c \in Changes :
        /\ change' = c
        /\ disk_source' = IF c.op = "touch"
                          THEN [disk_source EXCEPT ![c.file] = {clock + 1}]
                          ELSE disk_source
        /\ output_exists' = (output_exists /\ c.op # "rmout")
    /\ clock' = clock + 1
    /\ run' = run + 1
    /\ prev_ok' = RunOk
    /\ mainpc' = "load"
    /\ mainidx' = 0
    /\ result' = "none"
    /\ compile_count' = 0
    /\ linked' = "no"
    /\ failed' = [n \in Node |-> FALSE]
    /\ compiled_parents' = [n \in Node |-> 0]
    /\ tasks' = <<>>
    /\ stop' = FALSE
    /\ got_error' = FALSE
    /\ number_working' = 0
    /\ started' = {}
    /\ succeeded' = {}
    /\ passed' = {}
    /\ queued' = [n \in Node |-> 0]
    /\ cycle_report' = <<>>
    /\ UNCHANGED <<graphVars, fileVars, compiled_time, workerVars, stack, disk_artifact>>
    /\ UNCHANGED <<auxVars, liveVars, treeVars>>

(***************************************************************************)
(* The live patch engine: Main::start, Main::update and Main::close on the *)
(* SourceFile of source_file.cpp.  A path is the temp file tmp/tmp<id>.so  *)
(* or the compiled_path of record id; an image is what a path holds: the   *)
(* code of a file at a version of its source, loadable (so) or not.        *)
(***************************************************************************)
\* most writes and deletions of a source while the hosted program runs
MaxEdits == 3

\* most live compiles in a session
MaxLiveCompiles == 3

TmpPath(i) == [dir |-> "tmp", id |-> i]
ObjPath(n) == [dir |-> "obj", id |-> n]
Paths == {TmpPath(i) : i \in 0 .. MaxLiveCompiles - 1} \cup {ObjPath(n) : n \in Node}

Image(n, v, so) == [file |-> n, ver |-> v, so |-> so]
\* the code of file n in the binary the session starts with
Original(n) == Image(n, 0, TRUE)

NoTick == [file |-> 0, changed |-> FALSE, ok |-> FALSE, replaced |-> FALSE, ver |-> 0]

\* the engine is not running: the values of its variables in a build
LiveOff ==
    /\ last_write_time = [n \in Node |-> {}]
    /\ latest_dll = [n \in Node |-> ObjPath(n)]
    /\ path_index = 0
    /\ loaded_handles = <<>>
    /\ temporary_files = <<>>
    /\ plt = [n \in Node |-> Original(n)]
    /\ files_on_disk = [p \in Paths |-> {}]
    /\ livepc = "off"
    /\ closed_handles = {}
    /\ ever_loaded = <<>>
    /\ removed_files = {}
    /\ last_tick = NoTick
    /\ live_failed = [n \in Node |-> FALSE]

\* the graph build is not running: the values of its variables elsewhere
TreeOff ==
    /\ files = <<>>
    /\ source_map = <<>>
    /\ files_mutex = {}
    /\ wdep = [w \in Worker |-> 0]
    /\ wheader = [w \in Worker |-> 0]
    /\ scan_of = <<>>
    /\ build_log = {}
    /\ scanned = <<>>

\* no file is being scanned: the values of the scanner's variables elsewhere
NoParser ==
    [label |-> "off", is_open |-> FALSE, c |-> 0, pos |-> 0, path |-> <<>>, path_len |-> 0,
     events |-> <<>>, module_name |-> <<>>, named |-> 0, ret |-> "none",
     at_eof |-> FALSE, reread |-> FALSE, late |-> FALSE, writes |-> {}]

ScanOff ==
    /\ scan_input = <<>>
    /\ parser = NoParser

\* the driver's start and the module mapper are left out
NoCommand == [file |-> {}, build_command |-> <<>>, changed |-> FALSE, last_ok |-> {}]
NoMapper == [pc |-> "off"]

CmdOff == command = NoCommand
MapperOff == mapper = NoMapper

KindsOf(E) ==
    {k \in [Node -> {"UNIT", "HEADER", "MODULE"}] :
        \A n \in Node : IF \E c \in Node : <<n, c>> \in E
                        THEN k[n] \in {"HEADER", "MODULE"}
                        ELSE k[n] \in {"UNIT", "HEADER"}}

\* every source was written at time 1, but the file of an include may be missing
SourcesOnDisk(k) ==
    {d \in [Node -> {{}, {1}}] :
        /\ \A n \in Node : d[n] = {} => is_include(k[n])
        /\ Cardinality({n \in Node : d[n] = {}}) <= MaxMissing}

Outcomes ==
    {o \in [Node -> BOOLEAN] : Cardinality({n \in Node : ~o[n]}) <= MaxFailing}

Init ==
    /\ \E E \in Graphs :
        /\ parents = ParentsOf(E)
        /\ children = ChildrenOf(E)
        /\ kind \in KindsOf(E)
    /\ compiler_ok \in Outcomes
    /\ disk_source \in SourcesOnDisk(kind)
    /\ disk_artifact = [n \in Node |-> {}]
    /\ output_exists = FALSE
    /\ clock = 1
    /\ source_time = [n \in Node |-> {}]
    /\ compiled_time = [n \in Node |-> {}]
    /\ need_compile = [n \in Node |-> FALSE]
    /\ failed = [n \in Node |-> FALSE]
    /\ compiled_parents = [n \in Node |-> 0]
    /\ tasks = <<>>
    /\ stop = FALSE
    /\ got_error = FALSE
    /\ number_working = 0
    /\ wstate = [w \in Worker |-> "exited"]
    /\ wfile = [w \in Worker |-> 0]
    /\ werr = [w \in Worker |-> FALSE]
    /\ stack = [t \in Thread |-> <<>>]
    /\ mainpc = "load"
    /\ mainidx = 0
    /\ result = "none"
    /\ cycle_report = <<>>
    /\ run = 1
    /\ compile_count = 0
    /\ linked = "no"
    /\ prev_ok = FALSE
    /\ change = NoChange
    /\ started = {}
    /\ succeeded = {}
    /\ passed = {}
    /\ queued = [n \in Node |-> 0]
    /\ LiveOff
    /\ TreeOff
    /\ ScanOff
    /\ CmdOff
    /\ MapperOff

Next ==
    \/ LoadFiles
    \/ Plan
    \/ MainAdd
    \/ MainMark
    \/ MainCallJoin
    \/ MainJoinWait
    \/ MainJoinThreads
    \/ MainCheck
    \/ Link
    \/ NewRun
    \/ \E w \in Worker : WorkerTake(w)
    \/ \E w \in Worker : WorkerExit(w)
    \/ \E w \in Worker : WorkerCompile(w)
    \/ \E w \in Worker : WorkerMark(w)
    \/ \E w \in Worker : WorkerFinish(w)

Spec == Init /\ [][Next]_vars

(***************************************************************************)
(* Relations on the graph that the properties speak of.                    *)
(***************************************************************************)
RECURSIVE ReachFrom(_, _)
\* the files reachable from the set S through one or more children edges
ReachFrom(S, acc) ==
    LET nxt == {c \in Node : \E p \in S : c \in Range(children[p])} \ acc
    IN IF nxt = {} THEN acc ELSE ReachFrom(nxt, acc \cup nxt)

Descendants(n) == ReachFrom({n}, {})
Ancestors(n) == {a \in Node : n \in Descendants(a)}

\* compile_all has been called in this run and has returned
CompileAllReturned == compile_count # 0 /\ mainpc \in {"link", "end"}

(***************************************************************************)
(* C1: the compile step of a child starts only after the compile step of   *)
(* each of its parents returned OK or the parent was a pass-through.       *)
(***************************************************************************)
C1_ParentsBeforeChild ==
    \A c \in started : \A p \in Range(parents[c]) : p \in succeeded \cup passed

\* a child with a compiled parent and a pass-through parent has started
C1_Witness ==
    \E c \in started :
        /\ \E p \in Range(parents[c]) : p \in succeeded
        /\ \E p \in Range(parents[c]) : p \in passed

(***************************************************************************)
(* C2: when the compile step of F fails, no descendant of F has its        *)
(* compile step started in that build.                                     *)
(***************************************************************************)
C2_NoDescendantOfFailed ==
    \A f \in Node : failed[f] => Descendants(f) \cap started = {}

\* a build has ended in which a file with a descendant in the plan failed
C2_Witness ==
    /\ mainpc = "end"
    /\ \E f \in Node : failed[f] /\ \E d \in Descendants(f) : need_compile[d]

(***************************************************************************)
(* C3: after a compile step failed, every other file of the plan none of   *)
(* whose ancestors failed still has its compile step run before            *)
(* compile_all returns.  (Files below a cycle can never run and are left   *)
(* out.)                                                                   *)
(***************************************************************************)
OnCycle(n) == n \in Descendants(n)

CanRun(n) ==
    /\ need_compile[n]
    /\ ~OnCycle(n)
    /\ \A a \in Ancestors(n) : ~OnCycle(a) /\ ~failed[a]

C3_NoAbortOnFirstFailure ==
    (CompileAllReturned /\ some_failed) => \A n \in Node : CanRun(n) => n \in started

(***************************************************************************)
(* C4: compile_all returns FAILED when a compile step failed or a counter  *)
(* ended below the parent count; when it returns OK every file of the plan *)
(* was compiled successfully.                                              *)
(***************************************************************************)
C4_ResultOfCompileAll ==
    CompileAllReturned =>
        /\ (\/ \E n \in Node : failed[n]
            \/ \E n \in Node : compiled_parents[n] < Len(parents[n]))
           => result = "FAILED"
        /\ result = "OK" => \A n \in Node : need_compile[n] => n \in succeeded

\* compile_all returned FAILED only for a counter below the parent count
C4_Witness ==
    /\ CompileAllReturned
    /\ result = "FAILED"
    /\ \A n \in Node : ~failed[n]
    /\ \E n \in Node : compiled_parents[n] < Len(parents[n])

(***************************************************************************)
(* C8: for a fixed graph, plan and per-file outcomes the set of files      *)
(* whose artifact compile_all produces is the same for every worker count  *)
(* and interleaving: it is the set the algorithm determines.               *)
(***************************************************************************)
RECURSIVE DoneClosure(_)
\* the files the scheduling algorithm gets done: compiled OK or passed through
DoneClosure(D) ==
    LET nxt == {n \in Node \ D :
                    /\ \A p \in Range(parents[n]) : p \in D
                    /\ need_compile[n] => compiler_ok[n]}
    IN IF nxt = {} THEN D ELSE DoneClosure(D \cup nxt)

ExpectedArtifacts == {n \in DoneClosure({}) : need_compile[n]}

C8_SameArtifactsInEveryInterleaving ==
    CompileAllReturned => succeeded = ExpectedArtifacts

(***************************************************************************)
(* The specification of need_compilation alone: the graph and the two      *)
(* times of every record are drawn freely, then the plan is made.          *)
(***************************************************************************)
\* the largest time of a file
MaxTime == 2

Times == {{}} \cup {{t} : t \in 1 .. MaxTime}

InitPlan ==
    /\ \E E \in Graphs :
        /\ parents = ParentsOf(E)
        /\ children = ChildrenOf(E)
    /\ kind = [n \in Node |-> "HEADER"]
    /\ compiler_ok = [n \in Node |-> TRUE]
    /\ source_time \in [Node -> Times]
    /\ compiled_time \in [Node -> Times]
    /\ disk_source = source_time
    /\ disk_artifact = compiled_time
    /\ output_exists = FALSE
    /\ clock = MaxTime
    /\ need_compile \in [Node -> BOOLEAN]
    /\ failed = [n \in Node |-> FALSE]
    /\ compiled_parents = [n \in Node |-> 0]
    /\ tasks = <<>>
    /\ stop = FALSE
    /\ got_error = FALSE
    /\ number_working = 0
    /\ wstate = [w \in Worker |-> "exited"]
    /\ wfile = [w \in Worker |-> 0]
    /\ werr = [w \in Worker |-> FALSE]
    /\ stack = [t \in Thread |-> <<>>]
    /\ mainpc = "plan"
    /\ mainidx = 0
    /\ result = "none"
    /\ cycle_report = <<>>
    /\ run = 1
    /\ compile_count = 0
    /\ linked = "no"
    /\ prev_ok = FALSE
    /\ change = NoChange
    /\ started = {}
    /\ succeeded = {}
    /\ passed = {}
    /\ queued = [n \in Node |-> 0]
    /\ LiveOff
    /\ TreeOff
    /\ ScanOff
    /\ CmdOff
    /\ MapperOff

\* DependencyTree::need_compilation
NeedCompilation ==
    /\ mainpc = "plan"
    /\ LET r == need_compilation(parents, children, source_time, compiled_time)
       IN /\ need_compile' = r.nc
          /\ compile_count' = r.cnt
    /\ mainpc' = "planned"
    /\ UNCHANGED <<graphVars, source_time, compiled_time, infoVars, poolVars, workerVars,
                   stack, mainidx, result, diskVars, run, linked, prev_ok, change,
                   histVars>>
    /\ UNCHANGED <<auxVars, liveVars, treeVars, cycle_report>>

NextPlan == NeedCompilation

SpecPlan == InitPlan /\ [][NextPlan]_vars

(***************************************************************************)
(* C5: on an acyclic graph need_compilation marks a record iff it is       *)
(* directly dirty (artifact time absent, or source time newer than the     *)
(* artifact time) or one of its ancestors is; it returns true iff a record *)
(* is marked.                                                              *)
(***************************************************************************)
Acyclic == \A n \in Node : ~OnCycle(n)

DirectlyDirty(n) ==
    \/ compiled_time[n] = {}
    \/ \E s \in source_time[n] : \E c \in compiled_time[n] : c < s

Dirty(n) == DirectlyDirty(n) \/ \E a \in Ancestors(n) : DirectlyDirty(a)

C5_PlanIsDirtyClosure ==
    (mainpc = "planned" /\ Acyclic) =>
        /\ \A n \in Node : need_compile[n] <=> Dirty(n)
        /\ compile_count # 0 <=> \E n \in Node : need_compile[n]

\* a planned graph with a clean root above a record that is dirty, one that is
\* clean below a dirty ancestor, and a clean record left out of the plan
C5_Witness ==
    /\ mainpc = "planned" /\ Acyclic
    /\ \E r, n \in Node :
        /\ Len(parents[r]) = 0 /\ ~DirectlyDirty(r) /\ ~need_compile[r]
        /\ n \in Descendants(r) /\ DirectlyDirty(n)
        /\ \E d \in Descendants(n) : ~DirectlyDirty(d) /\ need_compile[d]

(***************************************************************************)
(* C6: a run that follows a successful run with no source changed starts   *)
(* no compile step (its plan is empty), and it links only if the final     *)
(* artifact is missing.                                                    *)
(***************************************************************************)
\* the plan of this run has been made
Planned == mainpc \notin {"load", "plan"}

C6_SecondRunIdle ==
    (run >= 2 /\ prev_ok /\ change.op # "touch") =>
        /\ started = {}
        /\ Planned => \A n \in Node : ~need_compile[n]
        /\ linked # "no" => change.op = "rmout"

\* the run after a successful build of a graph with a timestamp-only include
\* above a unit has ended without any change, and without linking
C6_Witness ==
    /\ run >= 2 /\ prev_ok /\ change.op = "none" /\ mainpc = "end"
    /\ linked = "no"
    /\ \E h, u \in Node :
        /\ kind[h] = "HEADER" /\ kind[u] = "UNIT" /\ u \in Descendants(h)
        /\ disk_artifact[h] # {} /\ disk_artifact[u] # {}

(***************************************************************************)
(* C7: after a successful build, when the source time of exactly one       *)
(* record R is advanced, the plan of the next build is exactly R and the   *)
(* descendants of R.                                                       *)
(***************************************************************************)
C7_PlanIsTouchedAndDescendants ==
    (run >= 2 /\ prev_ok /\ change.op = "touch" /\ Planned) =>
        {n \in Node : need_compile[n]} = {change.file} \cup Descendants(change.file)

\* a header with a unit below it and a unit beside it was touched: the plan is
\* made and leaves the other unit out
C7_Witness ==
    /\ run >= 2 /\ prev_ok /\ change.op = "touch" /\ Planned
    /\ kind[change.file] = "HEADER"
    /\ \E u \in Descendants(change.file) : kind[u] = "UNIT" /\ need_compile[u]
    /\ \E v \in Node : kind[v] = "UNIT" /\ ~need_compile[v]

\* SourceFile::is_header of the engine's SourceFile
is_header(t) == t \in {"PCH", "SYSTEM_PCH"}

\* SourceFile::has_source_changed: the answer and the new last_write_time
has_source_changed(t, lw, dsrc) ==
    IF is_header(t) THEN [changed |-> FALSE, lw |-> lw]
    ELSE IF dsrc = {} THEN [changed |-> TRUE, lw |-> lw]
    ELSE IF lw = {} \/ \E l \in lw : \E d \in dsrc : l < d
    THEN [changed |-> TRUE, lw |-> dsrc]
    ELSE [changed |-> FALSE, lw |-> lw]

\* get_build_command: the output path of a live compile of record n
live_output_path(t, n, temps) ==
    IF t = "UNIT" THEN TmpPath(Len(temps)) ELSE ObjPath(n)

\* the value SourceFile::compile returns: true if an error occurred
compile(ok) == ~ok

\* SourceFile::replace_functions on the content of latest_dll: the handle list and
\* the PLT after it.  dlopen gives a handle for a loadable image only.
replace_functions_unload_previous(handles, p, path, content) ==
    IF content = {} \/ \A i \in content : ~i.so
    THEN [handles |-> handles, plt |-> p]
    ELSE LET img == CHOOSE i \in content : TRUE
         IN [handles |-> <<[path |-> path, image |-> img]>>,
             plt |-> [p EXCEPT ![img.file] = img]]

replace_functions(handles, p, path, content) ==
    IF content = {} \/ \A i \in content : ~i.so
    THEN [handles |-> handles, plt |-> p]
    ELSE LET img == CHOOSE i \in content : TRUE
         IN [handles |-> Append(handles, [path |-> path, image |-> img]),
             plt |-> [p EXCEPT ![img.file] = img]]

\* Main::update, the tick of the hosted program; ok is the compiler's outcome: a
\* compiler whose input file is missing fails
Update ==
    /\ livepc = "running"
    /\ \E ok \in (IF disk_source[(path_index + 1) % NumFiles] = {} THEN {FALSE} ELSE BOOLEAN) :
        LET idx == (path_index + 1) % NumFiles
            h == has_source_changed(kind[idx], last_write_time[idx], disk_source[idx])
            out == live_output_path(kind[idx], idx, temporary_files)
            ver == CHOOSE v \in fs_last_write_time(disk_source[idx]) : TRUE
            disk1 == IF ok THEN [files_on_disk EXCEPT ![out] = {Image(idx, ver, TRUE)}]
                     ELSE files_on_disk
            r == replace_functions(loaded_handles, plt, out, disk1[out])
        IN /\ h.changed => Len(temporary_files) < MaxLiveCompiles
           /\ path_index' = idx
           /\ last_write_time' = [last_write_time EXCEPT ![idx] = h.lw]
           /\ live_failed' = IF h.changed THEN [live_failed EXCEPT ![idx] = ~ok]
                             ELSE live_failed
           /\ IF h.changed
              THEN /\ latest_dll' = [latest_dll EXCEPT ![idx] = out]
                   /\ temporary_files' = Append(temporary_files, out)
                   /\ files_on_disk' = disk1
                   /\ IF compile(ok)
                      THEN /\ loaded_handles' = r.handles
                           /\ plt' = r.plt
                      ELSE UNCHANGED <<loaded_handles, plt>>
                   /\ last_tick' = [file |-> idx, changed |-> TRUE, ok |-> ok,
                                    replaced |-> compile(ok), ver |-> ver]
              ELSE /\ UNCHANGED <<latest_dll, temporary_files, files_on_disk,
                                  loaded_handles, plt>>
                   /\ last_tick' = [NoTick EXCEPT !.file = idx]
           /\ ever_loaded' = ever_loaded \o SubSeq(loaded_handles', Len(loaded_handles) + 1,
                                                   Len(loaded_handles'))
    /\ UNCHANGED <<auxVars, buildVars, kind, disk_source, clock, livepc, closed_handles,
                   removed_files>>

\* the user saves a source file while the hosted program runs
EditSource ==
    /\ livepc = "running"
    /\ clock < 1 + MaxEdits
    /\ \E n \in Node :
        /\ disk_source' = [disk_source EXCEPT ![n] = {clock + 1}]
        /\ live_failed' = [live_failed EXCEPT ![n] = FALSE]
    /\ clock' = clock + 1
    /\ UNCHANGED <<auxVars, buildVars, kind, last_write_time, latest_dll, path_index, loaded_handles,
                   temporary_files, plt, files_on_disk, livepc, closed_handles, ever_loaded,
                   removed_files, last_tick>>

\* the user deletes or moves away a source file while the hosted program runs
DeleteSource ==
    /\ livepc = "running"
    /\ clock < 1 + MaxEdits
    /\ clock' = clock + 1
    /\ \E n \in Node :
        /\ disk_source[n] # {}
        /\ disk_source' = [disk_source EXCEPT ![n] = {}]
        /\ live_failed' = [live_failed EXCEPT ![n] = FALSE]
    /\ UNCHANGED <<auxVars, buildVars, kind, last_write_time, latest_dll, path_index,
                   loaded_handles, temporary_files, plt, files_on_disk, livepc,
                   closed_handles, ever_loaded, removed_files, last_tick>>

\* the hosted entry point returned: Main::start calls Main::close
Close ==
    /\ livepc = "running"
    /\ livepc' = "closed"
    /\ closed_handles' = closed_handles \cup Range(loaded_handles)
    /\ loaded_handles' = <<>>
    /\ removed_files' = removed_files \cup Range(temporary_files)
    /\ files_on_disk' = [p \in Paths |->
                            IF p \in Range(temporary_files) THEN {} ELSE files_on_disk[p]]
    /\ temporary_files' = <<>>
    /\ UNCHANGED <<auxVars, buildVars, kind, disk_source, clock, last_write_time, latest_dll,
                   path_index, plt, ever_loaded, last_tick, live_failed>>

\* a temp file may be left from a session that did not shut down
StaleTemps ==
    {d \in [Paths -> {{}} \cup {{Original(0)}} \cup {{Image(n, 1, FALSE)} : n \in Node}] :
        \A p \in Paths : IF p.dir = "tmp" THEN d[p] \in {{}, {Original(0)}}
                         ELSE d[p] = {Image(p.id, 1, FALSE)}}

InitLive ==
    /\ parents = [n \in Node |-> <<>>]
    /\ children = [n \in Node |-> <<>>]
    /\ kind \in [Node -> {"UNIT", "MODULE", "PCH"}]
    /\ compiler_ok = [n \in Node |-> TRUE]
    /\ disk_source = [n \in Node |-> {1}]
    /\ disk_artifact = [n \in Node |-> {1}]
    /\ output_exists = TRUE
    /\ clock = 1
    /\ source_time = [n \in Node |-> {1}]
    /\ compiled_time = [n \in Node |-> {1}]
    /\ need_compile = [n \in Node |-> FALSE]
    /\ failed = [n \in Node |-> FALSE]
    /\ compiled_parents = [n \in Node |-> 0]
    /\ tasks = <<>>
    /\ stop = FALSE
    /\ got_error = FALSE
    /\ number_working = 0
    /\ wstate = [w \in Worker |-> "exited"]
    /\ wfile = [w \in Worker |-> 0]
    /\ werr = [w \in Worker |-> FALSE]
    /\ stack = [t \in Thread |-> <<>>]
    /\ mainpc = "live"
    /\ mainidx = 0
    /\ result = "none"
    /\ cycle_report = <<>>
    /\ run = 1
    /\ compile_count = 0
    /\ linked = "no"
    /\ prev_ok = TRUE
    /\ change = NoChange
    /\ started = {}
    /\ succeeded = {}
    /\ passed = {}
    /\ queued = [n \in Node |-> 0]
    /\ TreeOff
    /\ ScanOff
    /\ CmdOff
    /\ MapperOff
    /\ last_write_time = [n \in Node |-> {1}]
    /\ latest_dll = [n \in Node |-> ObjPath(n)]
    /\ path_index = 0
    /\ loaded_handles = <<>>
    /\ temporary_files = <<>>
    /\ plt = [n \in Node |-> Original(n)]
    /\ files_on_disk \in StaleTemps
    /\ livepc = "running"
    /\ closed_handles = {}
    /\ ever_loaded = <<>>
    /\ removed_files = {}
    /\ last_tick = NoTick
    /\ live_failed = [n \in Node |-> FALSE]

NextLive ==
    \/ Update
    \/ EditSource
    \/ DeleteSource
    \/ Close

SpecLive == InitLive /\ [][NextLive]_vars

(***************************************************************************)
(* C9: when a tick finds the source of a unit changed and the live compile *)
(* succeeds, the new image is loaded and the PLT entry of its symbol is    *)
(* redirected to it; replace_functions is called exactly when the compile  *)
(* succeeded.                                                              *)
(***************************************************************************)
C9_PatchOnSuccess ==
    (last_tick.changed /\ kind[last_tick.file] = "UNIT") =>
        /\ last_tick.replaced <=> last_tick.ok
        /\ last_tick.ok => /\ plt[last_tick.file] = Image(last_tick.file, last_tick.ver, TRUE)
                           /\ \E i \in 1 .. Len(loaded_handles) :
                                loaded_handles[i].image = plt[last_tick.file]

(***************************************************************************)
(* C10: while the hosted program runs no handle leaves the loaded-image    *)
(* list and none is closed: the list is all the handles ever pushed.       *)
(***************************************************************************)
C10_NoImageRemovedInSession ==
    livepc = "running" => closed_handles = {} /\ loaded_handles = ever_loaded

\* two images were loaded by two ticks and the session still runs
C10_Witness ==
    /\ livepc = "running"
    /\ Len(loaded_handles) >= 2
    /\ loaded_handles[1] # loaded_handles[2]

(***************************************************************************)
(* C11: after a live compile of a record failed, no later tick compiles    *)
(* the record again as long as the modification time of its source does    *)
(* not change: a step that leaves the source of such a record as it is     *)
(* starts no live compile of it.                                           *)
(***************************************************************************)
LiveCompileOf(n) ==
    /\ path_index' = n
    /\ Len(temporary_files') = Len(temporary_files) + 1

C11_NoRetryAfterFailedLiveCompile ==
    [][\A n \in Node : (live_failed[n] /\ disk_source'[n] = disk_source[n])
                            => ~LiveCompileOf(n)]_vars


(***************************************************************************)
(* The graph build: DependencyTree::build and the scans it runs on the     *)
(* pool, DependencyTreeBuilder::map_file_dependencies.  A key of           *)
(* source_map is an fs::path: the source path of an include record or the  *)
(* name of a module.  Input i has the path i; HeaderPath is a file that no *)
(* input names, and a module is called HeaderPath or PureName.             *)
(***************************************************************************)
HeaderPath == NumFiles
PureName == NumFiles + 1
ModuleNames == {HeaderPath, PureName}
DiskPaths == 0 .. HeaderPath

\* most dependencies the scans of all files emit together
MaxDeps == 2

\* a module interface is not taken for a kind that imports modules
imports_modules_no_module(t) == t \in {"UNIT", "HEADER_UNIT"}

imports_modules(t) == t \in {"UNIT", "HEADER_UNIT", "MODULE"}

is_pch(t) == t \in {"PCH", "C_PCH"}

Dependency(path, type) == [path |-> path, type |-> type]

\* the record the constructor makes; module_name is {} or {name}
SourceFile(path, type, name) ==
    [type |-> type, source_path |-> path, module_name |-> name,
     dependencies |-> <<>>, parents |-> <<>>, children |-> <<>>]

\* std::unordered_map::emplace: an existing key keeps its value
emplace(map, key, value) == IF key \in DOMAIN map THEN map ELSE map @@ (key :> value)

LogError(what, key, file) == [error |-> what, key |-> key, file |-> file]

is_c_unit(t) == t = "C_UNIT"

\* other.dependencies.emplace_back(path, type) for the records that depend on a
\* precompiled header of this type: a PCH or a C_PCH
add_pch_dependency(fs, path, type) ==
    [j \in DOMAIN fs |->
        IF (IF type = "PCH" THEN imports_modules(fs[j].type) ELSE is_c_unit(fs[j].type))
        THEN [fs[j] EXCEPT !.dependencies = Append(@, Dependency(path, type))]
        ELSE fs[j]]

\* the later module of a name takes the name over
register_module_last_wins(st, name, i) ==
    [st EXCEPT !.map = [k \in DOMAIN @ \cup {name} |-> IF k = name THEN i ELSE @[k]]]

\* build: the module file i is entered into source_map under its name, or the
\* name is taken and the error is reported
register_module(st, name, i) ==
    IF name \notin DOMAIN st.map
    THEN [st EXCEPT !.map = emplace(@, name, i)]
    ELSE [st EXCEPT !.err = TRUE, !.log = @ \cup {LogError("multiple", name, i)}]

\* the loop "Initialise the maps" of build from file i on; st holds the record list,
\* source_map, pool.got_error and the log
RECURSIVE init_maps(_, _)
init_maps(st, i) ==
    IF i >= Len(st.files) THEN st
    ELSE LET f == st.files[i + 1]
             name == CHOOSE k \in f.module_name : TRUE
             st1 == IF f.type = "MODULE"
                    THEN register_module(st, name, i)
                    ELSE IF is_include(f.type)
                    THEN [st EXCEPT !.map = emplace(@, f.source_path, i)]
                    ELSE st
             st2 == IF f.type = "PCH"
                    THEN [st1 EXCEPT !.files = add_pch_dependency(@, f.source_path, "PCH")]
                    ELSE st1
             st3 == IF f.type = "C_PCH"
                    THEN [st2 EXCEPT !.files = add_pch_dependency(@, f.source_path, "C_PCH")]
                    ELSE st2
         IN init_maps(st3, i + 1)


\* the edge is written into parents only
link_parents_only(fs, file, header) ==
    [fs EXCEPT ![file + 1].parents = Append(@, header)]

\* the child is entered into children only if it is not there yet
link_child_once(fs, file, header) ==
    [fs EXCEPT ![file + 1].parents = Append(@, header),
               ![header + 1].children =
                   IF \E k \in DOMAIN @ : @[k] = file THEN @ ELSE Append(@, file)]

\* tree.files[file].parents.push_back(header) and, under children_mutex,
\* tree.files[header].children.push_back(file)
link(fs, file, header) ==
    [fs EXCEPT ![file + 1].parents = Append(@, header),
               ![header + 1].children = Append(@, file)]

\* the variables a scan and the builder's loops leave alone
scanFrame == <<parents, children, kind, compiler_ok, source_time, compiled_time,
               need_compile, failed, compiled_parents, stack, result, cycle_report,
               disk_source, disk_artifact, output_exists, clock,
               run, compile_count, linked, prev_ok, change, scan_of,
               started, succeeded, passed, queued, liveVars, auxVars>>

\* build: the loop that fills source_map and adds the dependencies on the PCH
BuildMaps ==
    /\ mainpc = "maps"
    /\ LET st == init_maps([files |-> files, map |-> source_map, err |-> got_error,
                            log |-> build_log], 0)
       IN /\ files' = st.files
          /\ source_map' = st.map
          /\ got_error' = st.err
          /\ build_log' = st.log
    /\ mainpc' = "scan"
    /\ mainidx' = 0
    /\ UNCHANGED <<scanFrame, tasks, stop, number_working, workerVars, files_mutex,
                   wdep, wheader, scanned>>

\* build: one iteration of the loop that enqueues a scan for every input file
BuildEnqueue ==
    /\ mainpc = "scan"
    /\ mainidx < NumFiles
    /\ tasks' = Append(tasks, mainidx)
    /\ mainidx' = mainidx + 1
    /\ UNCHANGED <<scanFrame, stop, got_error, number_working, workerVars, mainpc,
                   files, source_map, files_mutex, wdep, wheader, build_log, scanned>>

\* build: the loop is over, builder.pool.join() is called
BuildCallJoin ==
    /\ mainpc = "scan"
    /\ mainidx = NumFiles
    /\ mainpc' = "join"
    /\ UNCHANGED <<scanFrame, poolVars, workerVars, mainidx,
                   files, source_map, files_mutex, wdep, wheader, build_log, scanned>>

\* build: the return value after join
BuildReturn ==
    /\ mainpc = "check"
    /\ result' = IF got_error THEN "FAILED" ELSE "OK"
    /\ mainpc' = "built"
    /\ UNCHANGED <<parents, children, kind, compiler_ok, source_time, compiled_time,
                   need_compile, failed, compiled_parents, stack, cycle_report,
                   disk_source, disk_artifact, output_exists, clock,
                   run, compile_count, linked, prev_ok, change,
                   started, succeeded, passed, queued, liveVars, auxVars,
                   poolVars, workerVars, mainidx, treeVars>>

\* the return after the last dependency without files_mutex.unlock_shared()
scan_next_keeps_lock(w, deps, k) ==
    IF k > Len(deps)
    THEN /\ wdep' = [wdep EXCEPT ![w] = 0]
         /\ wstate' = [wstate EXCEPT ![w] = "finish"]
         /\ files_mutex' = files_mutex \cup {w}
         /\ werr' = [werr EXCEPT ![w] = FALSE]
    ELSE /\ wdep' = [wdep EXCEPT ![w] = k]
         /\ wstate' = [wstate EXCEPT ![w] = "dep"]
         /\ files_mutex' = files_mutex \cup {w}
         /\ werr' = werr

\* map_file_dependencies goes on with dependency k of deps while it holds the
\* shared lock; after the last one it releases the lock and returns OK
scan_next(w, deps, k) ==
    IF k > Len(deps)
    THEN /\ wdep' = [wdep EXCEPT ![w] = 0]
         /\ wstate' = [wstate EXCEPT ![w] = "finish"]
         /\ files_mutex' = files_mutex \ {w}
         /\ werr' = [werr EXCEPT ![w] = FALSE]
    ELSE /\ wdep' = [wdep EXCEPT ![w] = k]
         /\ wstate' = [wstate EXCEPT ![w] = "dep"]
         /\ files_mutex' = files_mutex \cup {w}
         /\ werr' = werr

\* one more scan of the file in the history
count_scan(sc, file) ==
    IF file \in DOMAIN sc THEN [sc EXCEPT ![file] = @ + 1] ELSE sc @@ (file :> 1)

\* map_file_dependencies: the shared lock is taken and the file is read
ScanRead(w) ==
    /\ wstate[w] = "task"
    /\ LET file == wfile[w]
           f == files[file + 1]
           sr == scan_of[f.source_path]
           deps == IF is_pch(f.type) THEN <<>> ELSE f.dependencies \o sr.deps
       IN /\ scanned' = count_scan(scanned, file)
          /\ IF ~sr.ok
             THEN /\ werr' = [werr EXCEPT ![w] = TRUE]
                  /\ wstate' = [wstate EXCEPT ![w] = "finish"]
                  /\ UNCHANGED <<files, files_mutex, wdep>>
             ELSE /\ files' = [files EXCEPT ![file + 1].dependencies = deps]
                  /\ scan_next(w, deps, 1)
    /\ UNCHANGED <<scanFrame, poolVars, wfile, mainpc, mainidx, source_map, wheader,
                   build_log>>

\* the scan gives up at an import it cannot resolve
import_unresolved_aborts(w, file, deps, d) ==
    /\ build_log' = build_log \cup {LogError("does not exist", d.path, file)}
    /\ wdep' = [wdep EXCEPT ![w] = 0]
    /\ wstate' = [wstate EXCEPT ![w] = "finish"]
    /\ files_mutex' = files_mutex \ {w}
    /\ werr' = [werr EXCEPT ![w] = TRUE]
    /\ UNCHANGED files

\* map_file_dependencies: the name of an imported module is not in source_map: the
\* error is logged and the loop continues
import_unresolved(w, file, deps, d) ==
    /\ build_log' = build_log \cup {LogError("does not exist", d.path, file)}
    /\ scan_next(w, deps, wdep[w] + 1)
    /\ UNCHANGED files

\* map_file_dependencies: one dependency whose key is looked up under the shared lock
ScanDep(w) ==
    /\ wstate[w] = "dep"
    /\ LET file == wfile[w]
           deps == files[file + 1].dependencies
           d == deps[wdep[w]]
       IN IF d.path \in DOMAIN source_map
          THEN /\ files' = link(files, file, source_map[d.path])
               /\ scan_next(w, deps, wdep[w] + 1)
               /\ UNCHANGED build_log
          ELSE IF d.type = "MODULE"
          THEN import_unresolved(w, file, deps, d)
          ELSE /\ files_mutex' = files_mutex \ {w}
               /\ wstate' = [wstate EXCEPT ![w] = "insert"]
               /\ UNCHANGED <<files, wdep, werr, build_log>>
    /\ UNCHANGED <<scanFrame, poolVars, wfile, mainpc, mainidx, source_map, wheader,
                   scanned>>

\* with the write lock the header is inserted without a second look at the map
ScanInsert_no_recheck(w) ==
    /\ wstate[w] = "insert"
    /\ files_mutex = {}
    /\ LET d == files[wfile[w] + 1].dependencies[wdep[w]]
       IN /\ wheader' = [wheader EXCEPT ![w] = Len(files)]
          /\ files' = Append(files, SourceFile(d.path, d.type, {}))
          /\ source_map' = emplace(source_map, d.path, Len(files))
          /\ tasks' = Append(tasks, Len(files))
    /\ wstate' = [wstate EXCEPT ![w] = "link"]
    /\ UNCHANGED <<scanFrame, stop, got_error, number_working, wfile, werr, mainpc,
                   mainidx, files_mutex, wdep, build_log, scanned>>

\* map_file_dependencies: with the write lock the key is looked up again and, if
\* still unknown, the header is inserted and its scan enqueued
ScanInsert(w) ==
    /\ wstate[w] = "insert"
    /\ files_mutex = {}
    /\ LET d == files[wfile[w] + 1].dependencies[wdep[w]]
       IN IF d.path \in DOMAIN source_map
          THEN /\ wheader' = [wheader EXCEPT ![w] = source_map[d.path]]
               /\ UNCHANGED <<files, source_map, tasks>>
          ELSE /\ wheader' = [wheader EXCEPT ![w] = Len(files)]
               /\ files' = Append(files, SourceFile(d.path, d.type, {}))
               /\ source_map' = emplace(source_map, d.path, Len(files))
               /\ tasks' = Append(tasks, Len(files))
    /\ wstate' = [wstate EXCEPT ![w] = "link"]
    /\ UNCHANGED <<scanFrame, stop, got_error, number_working, wfile, werr, mainpc,
                   mainidx, files_mutex, wdep, build_log, scanned>>

\* map_file_dependencies: the shared lock is taken again and the edge is added
ScanLink(w) ==
    /\ wstate[w] = "link"
    /\ files' = link(files, wfile[w], wheader[w])
    /\ wheader' = [wheader EXCEPT ![w] = 0]
    /\ scan_next(w, files[wfile[w] + 1].dependencies, wdep[w] + 1)
    /\ UNCHANGED <<scanFrame, poolVars, wfile, mainpc, mainidx, source_map,
                   build_log, scanned>>

\* what a scan can emit: an import of a module name, an #include of a path
DepCandidates ==
    {Dependency(n, "MODULE") : n \in ModuleNames}
        \cup {Dependency(p, "HEADER") : p \in {NumFiles - 1, HeaderPath}}

DepLists == UNION {[1 .. n -> DepCandidates] : n \in 0 .. MaxDeps}

\* the header that only an #include names includes nothing or an input file
HeaderDeps == {<<>>, <<Dependency(NumFiles - 1, "HEADER")>>}

\* the files whose scan can fail: the first input, the discovered header
MayFail == {0, HeaderPath}

\* the files on disk as read_dependencies finds them: a scan fails or emits its list.
\* The first input emits nothing, the later ones and the header emit at most MaxDeps
\* dependencies together, and at most MaxFailing scans fail.
Scans ==
    {[p \in DiskPaths |->
        [ok |-> p \notin t[4],
         deps |-> IF p = HeaderPath THEN t[3]
                  ELSE IF p = NumFiles - 1 THEN t[2]
                  ELSE IF p = NumFiles - 2 THEN t[1]
                  ELSE <<>>]] :
      t \in {u \in DepLists \X DepLists \X HeaderDeps \X SUBSET MayFail :
                /\ Len(u[1]) + Len(u[2]) + Len(u[3]) <= MaxDeps
                /\ Cardinality(u[4]) <= MaxFailing
                /\ HeaderPath \in u[4] => u[3] = <<>>}}

\* the input list: file i has the path i; the first file is a module or a header,
\* the second a unit or the module PureName, the last a unit or a header
Inputs ==
    {in \in [Node -> [type : {"UNIT", "MODULE", "HEADER"}, name : ModuleNames]] :
        /\ \A n \in Node : in[n].type # "MODULE" => in[n].name = PureName
        /\ \A n \in Node : n > 0 => in[n].name = PureName
        /\ in[0].type # "UNIT"
        /\ \A n \in Node : (n > 0 /\ n < NumFiles - 1) => in[n].type # "HEADER"
        /\ in[NumFiles - 1].type # "MODULE"}

InitBuild ==
    /\ \E in \in Inputs :
        files = [i \in 1 .. NumFiles |->
                    SourceFile(i - 1, in[i - 1].type,
                               IF in[i - 1].type = "MODULE" THEN {in[i - 1].name} ELSE {})]
    /\ scan_of \in Scans
    /\ source_map = <<>>
    /\ files_mutex = {}
    /\ wdep = [w \in Worker |-> 0]
    /\ wheader = [w \in Worker |-> 0]
    /\ build_log = {}
    /\ scanned = <<>>
    /\ parents = [n \in Node |-> <<>>]
    /\ children = [n \in Node |-> <<>>]
    /\ kind = [n \in Node |-> "UNIT"]
    /\ compiler_ok = [n \in Node |-> TRUE]
    /\ disk_source = [n \in Node |-> {1}]
    /\ disk_artifact = [n \in Node |-> {}]
    /\ output_exists = FALSE
    /\ clock = 1
    /\ source_time = [n \in Node |-> {}]
    /\ compiled_time = [n \in Node |-> {}]
    /\ need_compile = [n \in Node |-> FALSE]
    /\ failed = [n \in Node |-> FALSE]
    /\ compiled_parents = [n \in Node |-> 0]
    /\ tasks = <<>>
    /\ stop = FALSE
    /\ got_error = FALSE
    /\ number_working = 0
    /\ wstate = [w \in Worker |-> "wait"]
    /\ wfile = [w \in Worker |-> 0]
    /\ werr = [w \in Worker |-> FALSE]
    /\ stack = [t \in Thread |-> <<>>]
    /\ mainpc = "maps"
    /\ mainidx = 0
    /\ result = "none"
    /\ cycle_report = <<>>
    /\ run = 1
    /\ compile_count = 0
    /\ linked = "no"
    /\ prev_ok = FALSE
    /\ change = NoChange
    /\ started = {}
    /\ succeeded = {}
    /\ passed = {}
    /\ queued = [n \in Node |-> 0]
    /\ LiveOff
    /\ ScanOff
    /\ CmdOff
    /\ MapperOff

NextBuild ==
    \/ BuildMaps
    \/ BuildEnqueue
    \/ BuildCallJoin
    \/ MainJoinWait
    \/ MainJoinThreads
    \/ BuildReturn
    \/ \E w \in Worker : WorkerTake(w)
    \/ \E w \in Worker : WorkerExit(w)
    \/ \E w \in Worker : ScanRead(w)
    \/ \E w \in Worker : ScanDep(w)
    \/ \E w \in Worker : ScanInsert(w)
    \/ \E w \in Worker : ScanLink(w)
    \/ \E w \in Worker : WorkerFinish(w)

SpecBuild == InitBuild /\ [][NextBuild]_vars

BuildReturned == mainpc = "built"


(***************************************************************************)
(* What the properties of the graph build speak of.                        *)
(***************************************************************************)
FileIds == 0 .. Len(files) - 1

\* the scan of the file has run to its end and returned OK
ScanCompleted(b) ==
    /\ b \in DOMAIN scanned
    /\ scan_of[files[b + 1].source_path].ok
    /\ \A w \in Worker : wstate[w] \in {"dep", "insert", "link"} => wfile[w] # b

\* the scan of b emitted `import name`
Imports(b, name) ==
    \E k \in 1 .. Len(files[b + 1].dependencies) :
        files[b + 1].dependencies[k] = Dependency(name, "MODULE")

\* a is the module record of its name: no other record declares the name
ProvidesAlone(a) ==
    /\ files[a + 1].type = "MODULE"
    /\ \A c \in FileIds : (c # a /\ files[c + 1].type = "MODULE")
                            => files[c + 1].module_name # files[a + 1].module_name

SameModuleName(a, b) ==
    /\ a # b
    /\ files[a + 1].type = "MODULE"
    /\ files[b + 1].type = "MODULE"
    /\ files[a + 1].module_name = files[b + 1].module_name

C13_DuplicateModuleFails ==
    BuildReturned =>
        /\ \A a, b \in FileIds :
            SameModuleName(a, b) =>
                /\ result = "FAILED"
                /\ \E e \in build_log : /\ e.error = "multiple"
                                        /\ {e.key} = files[a + 1].module_name
                                        /\ e.file \in {a, b}
        /\ result = "OK" => \A a, b \in FileIds : ~SameModuleName(a, b)

\* two modules of one name, no scan failed, and the build returned FAILED
C13_Witness ==
    /\ BuildReturned
    /\ result = "FAILED"
    /\ \A p \in DiskPaths : scan_of[p].ok
    /\ \E a, b \in FileIds : SameModuleName(a, b)


(***************************************************************************)
(* C14: an import whose name is not in the map is reported against the     *)
(* importing file and adds no edge; the other dependencies of the file are *)
(* still linked, the other files are still scanned, and the build returns  *)
(* OK, so that the compilation proceeds.                                   *)
(***************************************************************************)
\* the number of times x occurs in the sequence s
RECURSIVE Occurrences(_, _)
Occurrences(s, x) ==
    IF s = <<>> THEN 0
    ELSE (IF Head(s) = x THEN 1 ELSE 0) + Occurrences(Tail(s), x)

RECURSIVE SumOver(_, _)
SumOver(S, f) ==
    IF S = {} THEN 0
    ELSE LET x == CHOOSE y \in S : TRUE IN f[x] + SumOver(S \ {x}, f)

DepsOf(b) == files[b + 1].dependencies

\* the positions of the dependencies of b that are imports of a name that is not
\* a key of source_map (a key that is missing now was missing at the lookup)
UnresolvedImports(b) ==
    {k \in 1 .. Len(DepsOf(b)) :
        DepsOf(b)[k].type = "MODULE" /\ DepsOf(b)[k].path \notin DOMAIN source_map}

Includes(b) == {k \in 1 .. Len(DepsOf(b)) : DepsOf(b)[k].type # "MODULE"}

C14_UnresolvedImportIsLocal ==
    /\ \A b \in FileIds :
        ScanCompleted(b) =>
            /\ \A k \in UnresolvedImports(b) :
                    LogError("does not exist", DepsOf(b)[k].path, b) \in build_log
            /\ Len(files[b + 1].parents) <= Len(DepsOf(b)) - Cardinality(UnresolvedImports(b))
            /\ Range(files[b + 1].parents) \subseteq
                    {source_map[DepsOf(b)[k].path] :
                        k \in {j \in 1 .. Len(DepsOf(b)) :
                                    DepsOf(b)[j].path \in DOMAIN source_map}}
            /\ SumOver(FileIds, [h \in FileIds |-> Occurrences(files[h + 1].children, b)])
                    = Len(files[b + 1].parents)
            /\ \A k \in Includes(b) :
                    /\ DepsOf(b)[k].path \in DOMAIN source_map
                    /\ source_map[DepsOf(b)[k].path] \in Range(files[b + 1].parents)
    /\ (BuildReturned /\ \A p \in DiskPaths : scan_of[p].ok) =>
            /\ \A b \in FileIds : ScanCompleted(b) /\ scanned[b] = 1
            /\ result = "FAILED" => \E a, b \in FileIds : SameModuleName(a, b)

\* a file imports a name that is not in the map and then includes a header: the
\* header became its only parent, every file was scanned and the build returned OK
C14_Witness ==
    /\ BuildReturned
    /\ result = "OK"
    /\ \E b \in FileIds :
        /\ Len(DepsOf(b)) = 2
        /\ UnresolvedImports(b) = {1}
        /\ Includes(b) = {2}
        /\ files[b + 1].parents = <<source_map[DepsOf(b)[2].path]>>
        /\ b \in Range(files[source_map[DepsOf(b)[2].path] + 1].children)
    /\ \A c \in FileIds : ScanCompleted(c)


(***************************************************************************)
(* C15: when the scan of one file returns an error only that scan aborts:  *)
(* every other record, input or discovered, has been scanned when build    *)
(* returns, in every interleaving of the enqueueing thread and the workers.*)
(***************************************************************************)
C15_FailedScanStopsNoOtherScan ==
    BuildReturned => \A b \in FileIds : b \in DOMAIN scanned


(***************************************************************************)
(* C16: for a graph in which A imports B and B imports A, and no compile   *)
(* fails, compile_all finds the circular dependency, returns FAILED, and   *)
(* the printed report names A and B exactly once each.                     *)
(***************************************************************************)
RECURSIVE NamedInReport(_, _)
NamedInReport(lines, x) ==
    IF lines = <<>> THEN 0
    ELSE Occurrences(Head(lines), x) + NamedInReport(Tail(lines), x)

ImportEachOther(a, b) ==
    /\ a # b
    /\ a \in Range(parents[b])
    /\ b \in Range(parents[a])

C16_TwoCycleReportedOnce ==
    (CompileAllReturned /\ ~some_failed) =>
        \A a, b \in Node :
            ImportEachOther(a, b) =>
                /\ result = "FAILED"
                /\ cycle_report # <<>>
                /\ NamedInReport(cycle_report, a) = 1
                /\ NamedInReport(cycle_report, b) = 1

(***************************************************************************)
(* C17: whenever compile_all ends with nodes whose counter is below their  *)
(* parent count and that lie on a cycle, the cycle path is printed, also   *)
(* when the compile step of some other node failed.                        *)
(***************************************************************************)
C17_CyclePrintedAlsoAfterFailure ==
    CompileAllReturned =>
        \A i \in Node :
            (compiled_parents[i] < Len(parents[i]) /\ OnCycle(i))
                => \E k \in 1 .. Len(cycle_report) : i \in Range(cycle_report[k])

(***************************************************************************)
(* The include scanner: struct Parser of source_file.cpp.  A byte is a     *)
(* number in 0 .. 255, a char a number in -128 .. 127 (char is signed on   *)
(* the platforms the program is built for).  One step of the model is one  *)
(* visit of a label of parse(); a comment is skipped within the step of    *)
(* the label that calls parse_comment().                                   *)
(***************************************************************************)
PathSize == 3       \* sizeof(path): 4096 in the source
MaxLines == 3       \* lines of an input made of lines
MaxTail == 4        \* bytes that follow the opening of a directive

EOF == 0 - 1

Ascii(s) ==
    CASE s = "\t" -> 9    [] s = "\n" -> 10   [] s = "\r" -> 13   [] s = " " -> 32
      [] s = "\"" -> 34   [] s = "#" -> 35    [] s = "(" -> 40    [] s = ")" -> 41
      [] s = "*" -> 42    [] s = "/" -> 47    [] s = ";" -> 59    [] s = "<" -> 60
      [] s = ">" -> 62    [] s = "a" -> 97    [] s = "b" -> 98    [] s = "c" -> 99
      [] s = "d" -> 100   [] s = "e" -> 101   [] s = "i" -> 105   [] s = "l" -> 108
      [] s = "m" -> 109   [] s = "n" -> 110   [] s = "o" -> 111   [] s = "p" -> 112
      [] s = "r" -> 114   [] s = "t" -> 116   [] s = "u" -> 117   [] s = "{" -> 123
      [] s = "}" -> 125   [] s = "0xFF" -> 255

Bytes(str) == [k \in 1 .. Len(str) |-> Ascii(str[k])]

\* f.get(): the next byte, or EOF at the end of the file
get(pos) == IF pos < Len(scan_input) THEN scan_input[pos + 1] ELSE EOF

\* the conversion (char) of the int that f.get() returns
to_char(v) == IF v > 127 THEN v - 256 ELSE v

read_char(p) ==
    LET v == get(p.pos)
    IN [p EXCEPT !.c = to_char(v),
                 !.pos = IF v = EOF THEN p.pos ELSE p.pos + 1,
                 !.at_eof = p.at_eof \/ v = EOF,
                 !.reread = p.reread \/ p.at_eof,
                 !.late = p.late \/ (p.at_eof /\ v # EOF)]

\* path[i] = ch; writes is the history of the indices written
store(p, i, ch) ==
    [p EXCEPT !.path = IF i \in 0 .. PathSize - 1 THEN [p.path EXCEPT ![i + 1] = ch]
                       ELSE p.path,
              !.writes = p.writes \cup {i}]

path_add_char_unchecked(p) ==
    [p |-> [store(p, p.path_len, p.c) EXCEPT !.path_len = p.path_len + 1],
     ok |-> TRUE]

path_add_char(p) ==
    [p |-> [store(p, p.path_len, p.c) EXCEPT !.path_len = p.path_len + 1],
     ok |-> p.path_len + 1 # PathSize - 1]

\* the C string that starts at path
RECURSIVE c_str(_)
c_str(buf) ==
    IF buf = <<>> \/ Head(buf) = 0 THEN <<>> ELSE <<Head(buf)>> \o c_str(Tail(buf))

RECURSIVE comment_loop(_, _)
comment_loop(p, label) ==
    LET q == read_char(p)
    IN CASE label = "linecomment" ->
                IF q.c \in {Ascii("\n"), EOF} THEN q ELSE comment_loop(q, "linecomment")
         [] label = "multicomment_1" ->
                IF q.c = Ascii("*") THEN comment_loop(q, "multicomment_2")
                ELSE IF q.c = EOF THEN q
                ELSE comment_loop(q, "multicomment_1")
         [] label = "multicomment_2" ->
                IF q.c \in {Ascii("/"), EOF} THEN q
                ELSE IF q.c = Ascii("*") THEN comment_loop(q, "multicomment_2")
                ELSE comment_loop(q, "multicomment_1")

\* parse_comment that knows the line comment only
parse_comment_line_only(p) ==
    LET q == read_char(p)
    IN IF q.c = Ascii("/") THEN comment_loop(q, "linecomment")
       ELSE q

parse_comment(p) ==
    LET q == read_char(p)
    IN IF q.c = Ascii("/") THEN comment_loop(q, "linecomment")
       ELSE IF q.c = Ascii("*") THEN comment_loop(q, "multicomment_1")
       ELSE q

goto(p, label) == [p EXCEPT !.label = label]
return(p, value) == [p EXCEPT !.label = "return", !.ret = value]

\* the labels that match one letter of a keyword: the letter and the next label
Keyword ==
    [include_i |-> <<"i", "include_n">>, include_n |-> <<"n", "include_c">>,
     include_c |-> <<"c", "include_l">>, include_l |-> <<"l", "include_u">>,
     include_u |-> <<"u", "include_d">>, include_d |-> <<"d", "include_e">>,
     include_e |-> <<"e", "include_spaces">>,
     import_m |-> <<"m", "import_p">>, import_p |-> <<"p", "import_o">>,
     import_o |-> <<"o", "import_r">>, import_r |-> <<"r", "import_t">>,
     import_t |-> <<"t", "import_spaces">>,
     module_o |-> <<"o", "module_d">>, module_d |-> <<"d", "module_u">>,
     module_u |-> <<"u", "module_l">>, module_l |-> <<"l", "module_e">>,
     module_e |-> <<"e", "module_spaces">>]

Blank == {Ascii(" "), Ascii("\t"), Ascii("\n"), Ascii("\r")}

emit(p, what) ==
    [p EXCEPT !.events = Append(p.events, [kind |-> what, name |-> c_str(p.path)])]

empty_space(p) ==
    CASE p.c = Ascii("/") -> goto(read_char(parse_comment(p)), "empty_space")
      [] p.c \in {Ascii(";"), Ascii(" "), Ascii("\r"), Ascii("\n")} ->
            goto(read_char(p), "empty_space")
      [] p.c = Ascii("#") -> goto(p, "include_i")
      [] p.c = Ascii("i") -> goto(p, "import_m")
      [] p.c = Ascii("m") -> goto(p, "module_o")
      [] p.c \in {EOF, Ascii("{"), Ascii("(")} -> return(p, "OK")
      [] OTHER -> goto(read_char(p), "token")

token(p) ==
    CASE p.c = Ascii("/") -> goto(read_char(parse_comment(p)), "empty_space")
      [] p.c \in {Ascii(";"), Ascii(" "), Ascii("\r"), Ascii("\n")} ->
            goto(read_char(p), "empty_space")
      [] p.c \in {EOF, Ascii("{"), Ascii("(")} -> return(p, "OK")
      [] OTHER -> goto(read_char(p), "token")

keyword(p) ==
    LET q == read_char(p)
    IN IF q.c = Ascii(Keyword[p.label][1]) THEN goto(q, Keyword[p.label][2])
       ELSE goto(q, "token")

include_spaces(p) ==
    LET q == read_char(p)
    IN CASE q.c = Ascii("/") -> goto(parse_comment(q), "include_spaces")
         [] q.c \in {Ascii(" "), Ascii("\t")} -> goto(q, "include_spaces")
         [] q.c = Ascii("<") -> goto([q EXCEPT !.path_len = 0], "include_read_bracket")
         [] q.c = Ascii("\"") -> goto([q EXCEPT !.path_len = 0], "include_read_quote")
         [] q.c = EOF -> return(q, "UNEXPECTED_END")
         [] OTHER -> goto(q, "token")

\* include_read_bracket and include_read_quote: close is '>' or '"'
include_read(p, close, what) ==
    LET q == read_char(p)
    IN CASE q.c = Ascii(close) -> goto(emit(store(q, q.path_len, 0), what), "token")
         [] q.c = EOF -> return(q, "UNEXPECTED_END")
         [] OTHER -> LET a == path_add_char(q)
                     IN IF ~a.ok THEN return(a.p, "PATH_TOO_LONG") ELSE a.p

\* import_spaces and module_spaces
name_spaces(p, read) ==
    LET q == read_char(p)
    IN CASE q.c = Ascii("/") -> parse_comment(q)
         [] q.c \in Blank -> q
         [] q.c = EOF -> return(q, "UNEXPECTED_END")
         [] OTHER -> goto([store(q, 0, q.c) EXCEPT !.path_len = 1], read)

import_name(p) == emit(p, "import")
module_name(p) == [p EXCEPT !.module_name = c_str(p.path), !.named = p.named + 1]

\* import_read and module_read
name_read(p, what) ==
    LET q == read_char(p)
        r == IF q.c = Ascii("/") THEN parse_comment(q) ELSE q
        s == store(r, r.path_len, 0)
    IN CASE q.c = Ascii("/") \/ q.c \in Blank \cup {Ascii(";")} ->
                goto(read_char(IF what = "import" THEN import_name(s) ELSE module_name(s)),
                     "empty_space")
         [] q.c = EOF -> return(q, "UNEXPECTED_END")
         [] OTHER -> LET a == path_add_char(q)
                     IN IF ~a.ok THEN return(a.p, "PATH_TOO_LONG") ELSE a.p

parse(p) ==
    CASE p.label = "parse" ->
            IF ~p.is_open THEN return(p, "OPEN_FAILED")
            ELSE goto(read_char(p), "empty_space")
      [] p.label = "empty_space" -> empty_space(p)
      [] p.label = "token" -> token(p)
      [] p.label \in DOMAIN Keyword -> keyword(p)
      [] p.label = "include_spaces" -> include_spaces(p)
      [] p.label = "include_read_bracket" -> include_read(p, ">", "system")
      [] p.label = "include_read_quote" -> include_read(p, "\"", "local")
      [] p.label = "import_spaces" -> name_spaces(p, "import_read")
      [] p.label = "import_read" -> name_read(p, "import")
      [] p.label = "module_spaces" -> name_spaces(p, "module_read")
      [] p.label = "module_read" -> name_read(p, "module")

ParseStep ==
    /\ parser.label \notin {"off", "return"}
    /\ parser' = parse(parser)
    /\ UNCHANGED <<scan_input, buildVars, kind, disk_source, clock, liveVars,
                   cmdVars, mapperVars>>

\* the inputs: files made of whole lines, and the opening of a directive
\* followed by a few bytes
Directives ==
    {[line |-> <<"#", "i", "n", "c", "l", "u", "d", "e", " ", "\"", "a", "\"", "\n">>,
      kind |-> "local"],
     [line |-> <<"#", "i", "n", "c", "l", "u", "d", "e", " ", "<", "a", ">", "\n">>,
      kind |-> "system"],
     [line |-> <<"i", "m", "p", "o", "r", "t", " ", "a", ";", "\n">>, kind |-> "import"],
     [line |-> <<"m", "o", "d", "u", "l", "e", " ", "a", ";", "\n">>, kind |-> "module"]}

OtherLines ==
    {[line |-> <<"b", "{", "}", "\n">>, kind |-> "code"],
     [line |-> <<"b", "(", "a", ")", ";", "\n">>, kind |-> "code"],
     [line |-> <<"b", ";", "\n">>, kind |-> "plain"],
     [line |-> <<"/", "/", "b", "\n">>, kind |-> "plain"],
     [line |-> <<"/", "*", "b", "*", "/", "\n">>, kind |-> "plain"]}

Lines == Directives \cup OtherLines

LineSeqs == UNION {[1 .. n -> Lines] : n \in 0 .. MaxLines}

RECURSIVE Flatten(_)
Flatten(ls) == IF ls = <<>> THEN <<>> ELSE Bytes(Head(ls).line) \o Flatten(Tail(ls))

LineInputs == {Flatten(ls) : ls \in LineSeqs}

Openers ==
    {<<>>,
     <<"#", "i", "n", "c", "l", "u", "d", "e", " ", "<">>,
     <<"#", "i", "n", "c", "l", "u", "d", "e", "\"">>,
     <<"i", "m", "p", "o", "r", "t", " ">>,
     <<"m", "o", "d", "u", "l", "e", "\n">>}

TailBytes == {"a", "/", "*", ";", "\"", ">", "\n", "0xFF"}

Tails == UNION {[1 .. n -> TailBytes] : n \in 0 .. MaxTail}

RawInputs == {Bytes(o \o t) : o \in Openers, t \in Tails}

InitScan ==
    /\ scan_input \in LineInputs \cup RawInputs
    /\ \E open \in (IF scan_input = <<>> THEN BOOLEAN ELSE {TRUE}) :
        parser = [NoParser EXCEPT !.label = "parse", !.is_open = open,
                                  !.path = [k \in 1 .. PathSize |-> 0]]
    /\ parents = [n \in Node |-> <<>>]
    /\ children = [n \in Node |-> <<>>]
    /\ kind = [n \in Node |-> "UNIT"]
    /\ compiler_ok = [n \in Node |-> TRUE]
    /\ disk_source = [n \in Node |-> {1}]
    /\ disk_artifact = [n \in Node |-> {}]
    /\ output_exists = FALSE
    /\ clock = 1
    /\ source_time = [n \in Node |-> {}]
    /\ compiled_time = [n \in Node |-> {}]
    /\ need_compile = [n \in Node |-> FALSE]
    /\ failed = [n \in Node |-> FALSE]
    /\ compiled_parents = [n \in Node |-> 0]
    /\ tasks = <<>>
    /\ stop = FALSE
    /\ got_error = FALSE
    /\ number_working = 0
    /\ wstate = [w \in Worker |-> "exited"]
    /\ wfile = [w \in Worker |-> 0]
    /\ werr = [w \in Worker |-> FALSE]
    /\ stack = [t \in Thread |-> <<>>]
    /\ mainpc = "scanner"
    /\ mainidx = 0
    /\ result = "none"
    /\ cycle_report = <<>>
    /\ run = 1
    /\ compile_count = 0
    /\ linked = "no"
    /\ prev_ok = FALSE
    /\ change = NoChange
    /\ started = {}
    /\ succeeded = {}
    /\ passed = {}
    /\ queued = [n \in Node |-> 0]
    /\ LiveOff
    /\ TreeOff
    /\ CmdOff
    /\ MapperOff

NextScan == ParseStep

SpecScan == InitScan /\ [][NextScan]_vars

ParseReturned == parser.label = "return"

(***************************************************************************)
(* C18: in every state of a scan, every index the scanner has written in   *)
(* its path buffer, the terminating NUL included, is in 0 .. sizeof(path)  *)
(* - 1, and no byte of the input is consumed after the stream has          *)
(* returned end of file.                                                   *)
(***************************************************************************)
C18_ScannerSafety ==
    /\ parser.writes \subseteq 0 .. PathSize - 1
    /\ ~parser.late

\* a scan that filled the buffer as far as path_add_char lets it, and that
\* called read_char again after the end of the file
C18_Witness ==
    /\ ParseReturned
    /\ parser.writes = 0 .. PathSize - 2
    /\ parser.reread

(***************************************************************************)
(* C19: when the scan of a file made of whole lines returns, the scanner   *)
(* has emitted exactly one event for each line that is a #include "X", a   *)
(* #include <X> or an import X; in the order of the file, also when a line *)
(* before it has a { or a (, and the module name it recorded is the name   *)
(* of one module line or none.                                             *)
(***************************************************************************)
LinesOf(bytes) == CHOOSE ls \in LineSeqs : Flatten(ls) = bytes

EventsOf(ls) ==
    LET ds == SelectSeq(ls, LAMBDA l : l.kind \in {"local", "system", "import"})
    IN [k \in 1 .. Len(ds) |-> [kind |-> ds[k].kind, name |-> Bytes(<<"a">>)]]

C19_OneEventPerDirective ==
    (ParseReturned /\ scan_input \in LineInputs) =>
        /\ parser.events = EventsOf(LinesOf(scan_input))
        /\ parser.module_name \in
              {<<>>} \cup {Bytes(<<"a">>) : l \in {x \in Range(LinesOf(scan_input)) :
                                                     x.kind = "module"}}

(***************************************************************************)
(* A build with a precompiled header, and the plan of the run after the    *)
(* source of the precompiled header was written again.  The sources have   *)
(* no directives of their own: the only dependencies are the ones build    *)
(* adds for the PCH.                                                       *)
(***************************************************************************)
PchKinds == {"PCH", "C_PCH", "UNIT", "C_UNIT", "MODULE", "OBJECT", "HEADER_UNIT"}

\* map_file_dependencies of a file whose scan finds nothing, from dependency k on:
\* the path of a dependency that build added is a key of source_map
RECURSIVE map_file_dependencies(_, _, _, _)
map_file_dependencies(fs, map, file, k) ==
    LET deps == IF is_pch(fs[file + 1].type) THEN <<>> ELSE fs[file + 1].dependencies
    IN IF k > Len(deps) \/ deps[k].path \notin DOMAIN map THEN fs
       ELSE map_file_dependencies(link(fs, file, map[deps[k].path]), map, file, k + 1)

\* the scans of the files from file i on, one after the other
RECURSIVE map_all(_, _, _)
map_all(fs, map, i) ==
    IF i >= Len(fs) THEN fs
    ELSE map_all(map_file_dependencies(fs, map, i, 1), map, i + 1)

InitPch ==
    /\ kind \in {k \in [Node -> PchKinds] : \E n \in Node : is_pch(k[n])}
    /\ files = [i \in 1 .. NumFiles |->
                   SourceFile(i - 1, kind[i - 1],
                              IF kind[i - 1] = "MODULE" THEN {PureName + i} ELSE {})]
    /\ source_map = <<>>
    /\ files_mutex = {}
    /\ wdep = [w \in Worker |-> 0]
    /\ wheader = [w \in Worker |-> 0]
    /\ scan_of = <<>>
    /\ build_log = {}
    /\ scanned = <<>>
    /\ parents = [n \in Node |-> <<>>]
    /\ children = [n \in Node |-> <<>>]
    /\ compiler_ok = [n \in Node |-> TRUE]
    /\ disk_source = [n \in Node |-> {1}]
    /\ disk_artifact = [n \in Node |-> {}]
    /\ output_exists = FALSE
    /\ clock = 1
    /\ source_time = [n \in Node |-> {1}]
    /\ compiled_time = [n \in Node |-> {}]
    /\ need_compile = [n \in Node |-> FALSE]
    /\ failed = [n \in Node |-> FALSE]
    /\ compiled_parents = [n \in Node |-> 0]
    /\ tasks = <<>>
    /\ stop = FALSE
    /\ got_error = FALSE
    /\ number_working = 0
    /\ wstate = [w \in Worker |-> "exited"]
    /\ wfile = [w \in Worker |-> 0]
    /\ werr = [w \in Worker |-> FALSE]
    /\ stack = [t \in Thread |-> <<>>]
    /\ mainpc = "maps"
    /\ mainidx = 0
    /\ result = "none"
    /\ cycle_report = <<>>
    /\ run = 1
    /\ compile_count = 0
    /\ linked = "no"
    /\ prev_ok = FALSE
    /\ change = NoChange
    /\ started = {}
    /\ succeeded = {}
    /\ passed = {}
    /\ queued = [n \in Node |-> 0]
    /\ LiveOff
    /\ ScanOff
    /\ CmdOff
    /\ MapperOff

\* the rest of a successful build: every file is scanned, and every record is
\* compiled at the present time or was compiled at the time of its source
BuildSucceeds ==
    /\ mainpc = "scan"
    /\ ~got_error
    /\ LET fs == map_all(files, source_map, 0)
       IN /\ files' = fs
          /\ parents' = [n \in Node |-> fs[n + 1].parents]
          /\ children' = [n \in Node |-> fs[n + 1].children]
    /\ clock' = clock + 1
    /\ compiled_time' \in [Node -> {{clock}, {clock + 1}}]
    /\ disk_artifact' = compiled_time'
    /\ result' = "OK"
    /\ prev_ok' = TRUE
    /\ mainpc' = "end"
    /\ UNCHANGED <<kind, compiler_ok, source_time, need_compile, infoVars, poolVars,
                   workerVars, stack, mainidx, cycle_report, disk_source, output_exists,
                   run, compile_count, linked, change, histVars,
                   source_map, files_mutex, wdep, wheader, scan_of, build_log, scanned>>
    /\ UNCHANGED <<auxVars, liveVars>>

\* the source of a precompiled header is written again, and the next run
\* reads its time
TouchPch ==
    /\ mainpc = "end"
    /\ run < MaxRuns
    /\ \E p \in Node :
        /\ is_pch(kind[p])
        /\ change' = [op |-> "touch", file |-> p]
        /\ disk_source' = [disk_source EXCEPT ![p] = {clock + 1}]
        /\ source_time' = [source_time EXCEPT ![p] = {clock + 1}]
    /\ clock' = clock + 1
    /\ run' = run + 1
    /\ mainpc' = "plan"
    /\ UNCHANGED <<graphVars, compiled_time, need_compile, infoVars, poolVars, workerVars,
                   stack, mainidx, result, cycle_report, disk_artifact, output_exists,
                   compile_count, linked, prev_ok, histVars>>
    /\ UNCHANGED <<auxVars, liveVars, treeVars>>

NextPch ==
    \/ BuildMaps
    \/ BuildSucceeds
    \/ TouchPch
    \/ NeedCompilation

SpecPch == InitPch /\ [][NextPch]_vars

\* the plan of the run after a precompiled header of kind t was written again
PlannedAfterTouchOf(t) ==
    /\ mainpc = "planned"
    /\ change.op = "touch"
    /\ kind[change.file] = t

\* the records build makes depend on a precompiled header of kind t
DependsOnPch(t, n) ==
    \/ t = "PCH" /\ kind[n] \in {"UNIT", "HEADER_UNIT", "MODULE"}
    \/ t = "C_PCH" /\ kind[n] = "C_UNIT"

LinkStepRuns == mainpc = "link" /\ linked' # "no"
LinkStepSkipped == mainpc = "link" /\ linked' = "no"

MaxCmdRuns == 3

Commands == {<<1>>, <<1, 2>>, <<2>>}

\* the loop that compares the bytes of command.txt, from byte i on, with
\* context.build_command, and the comparison of the lengths after it
RECURSIVE bytes_differ(_, _, _)
bytes_differ(stored, cmd, i) ==
    IF i = Len(stored) THEN i # Len(cmd)
    ELSE IF i = Len(cmd) \/ stored[i + 1] # cmd[i + 1] THEN TRUE
    ELSE bytes_differ(stored, cmd, i + 1)

\* command.txt is absent or differs: the new build command is written at once
have_build_args_changed(c) ==
    LET changed == c.file = {} \/ \E stored \in c.file : bytes_differ(stored, c.build_command, 0)
    IN [c EXCEPT !.changed = changed,
                 !.file = IF changed THEN {c.build_command} ELSE c.file]

mark_for_compilation(changed) ==
    IF changed
    THEN [nc |-> [n \in Node |-> TRUE], cnt |-> NumFiles]
    ELSE need_compilation(parents, children, source_time, compiled_time)

InitCmd ==
    /\ \E stored \in {{}} \cup {{c} : c \in Commands} :
        command = [NoCommand EXCEPT !.file = stored, !.last_ok = stored]
    /\ parents = [n \in Node |-> <<>>]
    /\ children = [n \in Node |-> <<>>]
    /\ kind = [n \in Node |-> "UNIT"]
    /\ compiler_ok = [n \in Node |-> TRUE]
    /\ disk_source = [n \in Node |-> {1}]
    /\ source_time = [n \in Node |-> {1}]
    /\ compiled_time = IF command.file = {} THEN [n \in Node |-> {}] ELSE [n \in Node |-> {1}]
    /\ disk_artifact = compiled_time
    /\ output_exists = (command.file # {})
    /\ clock = 1
    /\ need_compile = [n \in Node |-> FALSE]
    /\ failed = [n \in Node |-> FALSE]
    /\ compiled_parents = [n \in Node |-> 0]
    /\ tasks = <<>>
    /\ stop = FALSE
    /\ got_error = FALSE
    /\ number_working = 0
    /\ wstate = [w \in Worker |-> "exited"]
    /\ wfile = [w \in Worker |-> 0]
    /\ werr = [w \in Worker |-> FALSE]
    /\ stack = [t \in Thread |-> <<>>]
    /\ mainpc = "initialise"
    /\ mainidx = 0
    /\ result = "none"
    /\ cycle_report = <<>>
    /\ run = 1
    /\ compile_count = 0
    /\ linked = "no"
    /\ prev_ok = FALSE
    /\ change = NoChange
    /\ started = {}
    /\ succeeded = {}
    /\ passed = {}
    /\ queued = [n \in Node |-> 0]
    /\ LiveOff
    /\ TreeOff
    /\ ScanOff
    /\ MapperOff

\* the variables the start of the driver and its abstract build leave alone
cmdFrame == <<graphVars, source_time, infoVars, poolVars, workerVars, stack, mainidx,
              cycle_report, disk_source, output_exists, linked, prev_ok, change, histVars,
              liveVars, treeVars, scanVars, mapperVars>>

\* Main::initialise of a run started with some build command
Initialise ==
    /\ mainpc = "initialise"
    /\ \E cmd \in Commands :
        command' = have_build_args_changed([command EXCEPT !.build_command = cmd])
    /\ mainpc' = "mark"
    /\ UNCHANGED <<cmdFrame, compiled_time, need_compile, result, disk_artifact, clock, run,
                   compile_count>>

\* compile_and_link up to the plan
MarkForCompilation ==
    /\ mainpc = "mark"
    /\ LET r == mark_for_compilation(command.changed)
       IN /\ need_compile' = r.nc
          /\ compile_count' = r.cnt
    /\ mainpc' = "compile"
    /\ UNCHANGED <<cmdFrame, compiled_time, result, disk_artifact, clock, run, command>>

\* the rest of the run: every planned record is compiled and the run succeeds,
\* or a compile step fails, or the process is interrupted
EndOfRun ==
    /\ mainpc = "compile"
    /\ \E outcome \in {"OK", "FAILED", "interrupted"} :
        /\ result' = outcome
        /\ compiled_time' = IF outcome = "OK"
                            THEN [n \in Node |-> IF need_compile[n] THEN {clock} ELSE compiled_time[n]]
                            ELSE compiled_time
        /\ command' = IF outcome = "OK"
                      THEN [command EXCEPT !.last_ok = {command.build_command}]
                      ELSE command
    /\ disk_artifact' = compiled_time'
    /\ mainpc' = "end"
    /\ UNCHANGED <<cmdFrame, need_compile, clock, run, compile_count>>

\* the driver is started again
NextRun ==
    /\ mainpc = "end"
    /\ run < MaxCmdRuns
    /\ run' = run + 1
    /\ result' = "none"
    /\ mainpc' = "initialise"
    /\ UNCHANGED <<cmdFrame, compiled_time, need_compile, disk_artifact, clock,
                   compile_count, command>>

NextCmd ==
    \/ Initialise
    \/ MarkForCompilation
    \/ EndOfRun
    \/ NextRun

SpecCmd == InitCmd /\ [][NextCmd]_vars

(***************************************************************************)
(* C22: between the runs command.txt holds the build command of the last   *)
(* successful run, so a run whose build command is not the one of the last *)
(* successful run (after a run with that command failed or was             *)
(* interrupted, too) marks every record for compilation.                   *)
(***************************************************************************)
C22_StoredCommandIsOfLastSuccess ==
    /\ mainpc \in {"initialise", "end"} => command.file = command.last_ok
    /\ (mainpc = "compile" /\ command.build_command \notin command.last_ok)
          => \A n \in Node : need_compile[n]

(***************************************************************************)
(* C23: after the graph build no two records of the record list have the   *)
(* same source_path, also when a translation unit of the input is named by *)
(* the #include of another file.                                           *)
(***************************************************************************)
C23_OneRecordPerPath ==
    BuildReturned =>
        \A i, j \in 1 .. Len(files) :
            files[i].source_path = files[j].source_path => i = j

(***************************************************************************)
(* C24: after a successful build, for every edge (b in a.parents) the      *)
(* recorded artifact time of b is strictly less than the recorded artifact *)
(* time of a, and the plan of the next run marks every record a for which  *)
(* this does not hold.                                                     *)
(***************************************************************************)
ArtifactOlder(b, a) ==
    \E tb \in compiled_time[b] : \E ta \in compiled_time[a] : tb < ta

C24_ParentArtifactOlder ==
    /\ (mainpc = "end" /\ compile_count # 0 /\ RunOk) =>
          \A a \in Node : \A b \in Range(parents[a]) : ArtifactOlder(b, a)
    /\ (run >= 2 /\ prev_ok /\ Planned) =>
          \A a \in Node : \A b \in Range(parents[a]) :
              ~ArtifactOlder(b, a) => need_compile[a]

(***************************************************************************)
(* The module mapper: module_mapper_pipe.cpp, thread_func.  The compiler   *)
(* writes batches of request lines to the pipe; the thread answers each    *)
(* line and ends a batch with a newline.                                   *)
(***************************************************************************)
MaxReads == 2
MaxBatch == 2

\* the values of the build that the other specifications leave at rest
BuildOff ==
    /\ parents = [n \in Node |-> <<>>]
    /\ children = [n \in Node |-> <<>>]
    /\ kind = [n \in Node |-> "UNIT"]
    /\ compiler_ok = [n \in Node |-> TRUE]
    /\ disk_source = [n \in Node |-> {1}]
    /\ disk_artifact = [n \in Node |-> {}]
    /\ output_exists = FALSE
    /\ clock = 1
    /\ source_time = [n \in Node |-> {}]
    /\ compiled_time = [n \in Node |-> {}]
    /\ need_compile = [n \in Node |-> FALSE]
    /\ failed = [n \in Node |-> FALSE]
    /\ compiled_parents = [n \in Node |-> 0]
    /\ tasks = <<>>
    /\ stop = FALSE
    /\ got_error = FALSE
    /\ number_working = 0
    /\ wstate = [w \in Worker |-> "exited"]
    /\ wfile = [w \in Worker |-> 0]
    /\ werr = [w \in Worker |-> FALSE]
    /\ stack = [t \in Thread |-> <<>>]
    /\ mainidx = 0
    /\ result = "none"
    /\ cycle_report = <<>>
    /\ run = 1
    /\ compile_count = 0
    /\ linked = "no"
    /\ prev_ok = FALSE
    /\ change = NoChange
    /\ started = {}
    /\ succeeded = {}
    /\ passed = {}
    /\ queued = [n \in Node |-> 0]

MapperNames == {"a", "b"}
RequestWords == {"HELLO", "MODULE-REPO", "MODULE-EXPORT", "MODULE-COMPILED",
                 "MODULE-IMPORT", "INCLUDE-TRANSLATE", "INVOKE", "BOGUS"}
\* a request line split at the spaces: the word and at most one argument
RequestLines == {<<w>> : w \in RequestWords} \cup (RequestWords \X MapperNames)
Batches == UNION {[1 .. n -> RequestLines] : n \in 1 .. MaxBatch}

\* the artifact of the record that provides module name
compiled_path(name) == <<"gcm", name>>

\* the switch of thread_func: the reply written for one line
reply(file, line) ==
    LET word == line[1]
        no_arg == Len(line) = 1
        err == <<"ERROR", "INVALID_REQUEST">>
    IN CASE word = "HELLO" -> <<"HELLO", "1", "LIVECC">>
         [] word = "MODULE-REPO" -> <<"MODULE-REPO", "module_repo">>
         [] word = "MODULE-EXPORT" ->
                IF no_arg THEN err ELSE <<"PATHNAME", compiled_path(file)>>
         [] word = "MODULE-COMPILED" -> IF no_arg THEN err ELSE <<"OK">>
         [] word = "MODULE-IMPORT" ->
                IF no_arg THEN err ELSE <<"ERROR", "NOT_IMPLEMENTED">>
         [] word = "INCLUDE-TRANSLATE" -> IF no_arg THEN err ELSE <<"BOOL", "TRUE">>
         [] word = "INVOKE" -> <<"ERROR", "NOT_SUPPORTED">>
         [] OTHER -> err

InitMapper ==
    /\ \E file \in MapperNames :
        mapper = [pc |-> "read", file |-> file, batch |-> <<>>, out |-> <<>>,
                  reads |-> 0]
    /\ BuildOff
    /\ mainpc = "mapper"
    /\ LiveOff
    /\ TreeOff
    /\ ScanOff
    /\ CmdOff

mapperFrame == <<graphVars, fileVars, compiled_time, infoVars, poolVars, workerVars,
                 stack, mainpc, mainidx, result, cycle_report, diskVars, runVars,
                 histVars, liveVars, treeVars, scanVars, cmdVars>>

\* read(input_fd, ...): a batch of request lines, or nothing when the pipe is closed
MapperRead ==
    /\ mapper.pc = "read"
    /\ \/ /\ mapper.reads < MaxReads
          /\ \E batch \in Batches :
              mapper' = [mapper EXCEPT !.pc = "lines", !.batch = batch, !.out = <<>>,
                                       !.reads = @ + 1]
       \/ mapper' = [mapper EXCEPT !.pc = "returned"]
    /\ UNCHANGED mapperFrame

\* one pass of the loop over the lines of the batch; a write that fails returns
MapperLine ==
    /\ mapper.pc = "lines"
    /\ Len(mapper.out) < Len(mapper.batch)
    /\ \E written \in BOOLEAN :
        IF written
        THEN mapper' = [mapper EXCEPT
                 !.out = Append(@, reply(mapper.file, mapper.batch[Len(@) + 1]))]
        ELSE mapper' = [mapper EXCEPT !.pc = "returned"]
    /\ UNCHANGED mapperFrame

\* the newline that ends the replies of a batch
MapperNewline ==
    /\ mapper.pc = "lines"
    /\ Len(mapper.out) = Len(mapper.batch)
    /\ \E written \in BOOLEAN :
        mapper' = [mapper EXCEPT !.pc = IF written THEN "read" ELSE "returned"]
    /\ UNCHANGED mapperFrame

NextMapper ==
    \/ MapperRead
    \/ MapperLine
    \/ MapperNewline

SpecMapper == InitMapper /\ [][NextMapper]_vars

(***************************************************************************)
(* C25: the reply written for a request MODULE-IMPORT <name> is the path   *)
(* of the artifact of the record that provides <name>.                     *)
(***************************************************************************)
C25_ImportAnsweredWithProviderPath ==
    mapper.pc # "off" =>
        \A k \in 1 .. Len(mapper.out) :
            (mapper.batch[k][1] = "MODULE-IMPORT" /\ Len(mapper.batch[k]) = 2) =>
                mapper.out[k] = <<"PATHNAME", compiled_path(mapper.batch[k][2])>>

(***************************************************************************)
(* C26: when concurrent scans discover the same unknown path, one record   *)
(* is inserted for it, every discovering scan links to the NodeId of that  *)
(* record, the NodeIds given before keep denoting the same records, and    *)
(* the scan of the new record is enqueued once: in the step that inserts   *)
(* it and in no other.                                                     *)
(***************************************************************************)
Inserted == NumFiles .. Len(files) - 1

\* the path of the dependency worker w is at
DiscoveredBy(w) == files[wfile[w] + 1].dependencies[wdep[w]].path

OneRecordPerDiscoveredPath ==
    /\ \A h, g \in Inserted :
          files[h + 1].source_path = files[g + 1].source_path => h = g
    /\ \A w \in Worker : wstate[w] = "link" =>
          /\ wheader[w] \in Inserted
          /\ files[wheader[w] + 1].source_path = DiscoveredBy(w)
          /\ source_map[DiscoveredBy(w)] = wheader[w]

NodeIdsStable ==
    /\ Len(files') >= Len(files)
    /\ \A i \in 1 .. Len(files) :
          /\ files'[i].source_path = files[i].source_path
          /\ files'[i].type = files[i].type
    /\ \A key \in DOMAIN source_map :
          key \in DOMAIN source_map' /\ source_map'[key] = source_map[key]

EnqueuedWithInsert ==
    /\ Len(files') > Len(files) =>
          /\ Len(files') = Len(files) + 1
          /\ tasks' = Append(tasks, Len(files))
    /\ (Len(tasks') > Len(tasks) /\ tasks'[Len(tasks')] >= NumFiles) =>
          /\ Len(files') > Len(files)
          /\ tasks'[Len(tasks')] = Len(files)

C26_ConcurrentDiscoveryInsertsOnce ==
    []OneRecordPerDiscoveredPath /\ [][NodeIdsStable /\ EnqueuedWithInsert]_vars

\* two scans have both found the path unknown, both have passed the write lock
\* and both are about to link to the one record inserted
C26_Witness ==
    \E w1, w2 \in Worker :
          /\ w1 # w2
          /\ wstate[w1] = "link" /\ wstate[w2] = "link"
          /\ wheader[w1] = wheader[w2]
          /\ wheader[w1] \in Inserted
          /\ DiscoveredBy(w1) = DiscoveredBy(w2)

(***************************************************************************)
(* C28: after the graph build the children lists are the inverse of the    *)
(* parents lists: b occurs in a.parents as often as a occurs in            *)
(* b.children, whatever the interleaving of the scans was.                 *)
(***************************************************************************)
C28_ChildrenInverseOfParents ==
    BuildReturned =>
        \A a, b \in FileIds :
            Occurrences(files[a + 1].parents, b) = Occurrences(files[b + 1].children, a)

\* a build has returned OK in which one file names the same header twice
C28_Witness ==
    /\ BuildReturned
    /\ result = "OK"
    /\ \E a, b \in FileIds :
          /\ Occurrences(files[a + 1].parents, b) = 2
          /\ Occurrences(files[b + 1].children, a) = 2

(***************************************************************************)
(* C27: in one run of compile_all every record is passed to                *)
(* add_to_compile_queue at most once, so its task is in the queue or has   *)
(* been taken at most once, and no two workers are in the task of the same *)
(* record at the same time.                                                *)
(***************************************************************************)
InTask(w) == wstate[w] \in {"task", "mark", "finish"}

C27_QueuedAtMostOnce ==
    /\ \A n \in Node : queued[n] <= 1
    /\ \A n \in Node :
          Occurrences(tasks, n) + (IF n \in started THEN 1 ELSE 0) <= 1
    /\ \A w1, w2 \in Worker :
          (w1 # w2 /\ InTask(w1) /\ InTask(w2)) => wfile[w1] # wfile[w2]

\* a record with two parents has been compiled after both of its parents were,
\* each of which counted itself into compiled_parents
C27_Witness ==
    \E n \in Node :
        /\ Len(parents[n]) = 2
        /\ \A p \in Range(parents[n]) : p \in succeeded
        /\ compiled_parents[n] = 2
        /\ queued[n] = 1
        /\ n \in succeeded

(***************************************************************************)
(* The graph build with threads that go on: the operating system runs      *)
(* every thread that can take a step, the calling thread and each worker.  *)
(***************************************************************************)
BuilderSteps ==
    \/ BuildMaps
    \/ BuildEnqueue
    \/ BuildCallJoin
    \/ MainJoinWait
    \/ MainJoinThreads
    \/ BuildReturn

ScanSteps(w) ==
    \/ WorkerTake(w)
    \/ WorkerExit(w)
    \/ ScanRead(w)
    \/ ScanDep(w)
    \/ ScanInsert(w)
    \/ ScanLink(w)
    \/ WorkerFinish(w)

\* the builds in which every scan returns OK
InitBuildOk == InitBuild /\ \A p \in DOMAIN scan_of : scan_of[p].ok

SpecBuildFair ==
    /\ InitBuildOk
    /\ [][NextBuild]_vars
    /\ WF_vars(BuilderSteps)
    /\ \A w \in Worker : WF_vars(ScanSteps(w))

(***************************************************************************)
(* C29: a scan that has returned holds no lock, and if no scan fails the   *)
(* scanning phase ends: build returns, and then no scan holds the lock on  *)
(* the record list, no scan is left in the queue and every record, the     *)
(* inserted ones too, has been scanned.                                    *)
(***************************************************************************)
NoScanFails == \A p \in DOMAIN scan_of : scan_of[p].ok

ScanningDone ==
    /\ BuildReturned
    /\ files_mutex = {}
    /\ tasks = <<>>
    /\ \A w \in Worker : wstate[w] = "exited"
    /\ \A f \in FileIds : ScanCompleted(f)

\* a worker whose scan has returned holds the lock on the record list no more
LocksReleased ==
    \A w \in Worker : wstate[w] \in {"finish", "wait", "exited"} => w \notin files_mutex

C29_ScanningTerminates == []LocksReleased /\ (NoScanFails => <>ScanningDone)

\* build has returned after a scan gave up the shared lock for the write lock
\* and inserted a header, whose scan was enqueued then
C29_Witness ==
    /\ NoScanFails
    /\ ScanningDone
    /\ Len(files) > NumFiles

(***************************************************************************)
(* The inspection for circular dependencies on its own: compile_all has    *)
(* joined its workers after a run in which no compile step failed, over    *)
(* the graphs of up to MaxCycleEdges edges.                                *)
(***************************************************************************)
MaxCycleEdges == 4

CycleGraphs == {E \in SUBSET Edges : Cardinality(E) <= MaxCycleEdges}

\* the records the scheduler never reaches: those on a cycle and below one
Unreached == {n \in Node : \E c \in Node : OnCycle(c) /\ (n = c \/ n \in Descendants(c))}

InitCycle ==
    /\ \E E \in CycleGraphs :
        /\ parents = ParentsOf(E)
        /\ children = ChildrenOf(E)
    /\ kind = [n \in Node |-> "UNIT"]
    /\ compiler_ok = [n \in Node |-> TRUE]
    /\ disk_source = [n \in Node |-> {1}]
    /\ source_time = [n \in Node |-> {1}]
    /\ need_compile = [n \in Node |-> TRUE]
    /\ compiled_parents =
          [n \in Node |-> Cardinality({p \in Range(parents[n]) : p \notin Unreached})]
    /\ started = Node \ Unreached
    /\ succeeded = started
    /\ queued = [n \in Node |-> IF n \in started THEN 1 ELSE 0]
    /\ compiled_time = [n \in Node |-> IF n \in started THEN {1} ELSE {}]
    /\ disk_artifact = [n \in Node |-> IF n \in started THEN {2} ELSE {}]
    /\ clock = 2
    /\ compile_count = NumFiles
    /\ output_exists = FALSE
    /\ failed = [n \in Node |-> FALSE]
    /\ tasks = <<>>
    /\ stop = TRUE
    /\ got_error = FALSE
    /\ number_working = 0
    /\ wstate = [w \in Worker |-> "exited"]
    /\ wfile = [w \in Worker |-> 0]
    /\ werr = [w \in Worker |-> FALSE]
    /\ stack = [t \in Thread |-> <<>>]
    /\ mainpc = "check"
    /\ mainidx = NumFiles
    /\ result = "none"
    /\ cycle_report = <<>>
    /\ run = 1
    /\ linked = "no"
    /\ prev_ok = FALSE
    /\ change = NoChange
    /\ passed = {}
    /\ LiveOff
    /\ TreeOff
    /\ ScanOff
    /\ CmdOff
    /\ MapperOff

NextCycle == MainCheck

SpecCycle == InitCycle /\ [][NextCycle]_vars

(***************************************************************************)
(* C30: the inspection for circular dependencies at the end of compile_all *)
(* returns for every graph, also when a cycle that does not contain i can  *)
(* be reached from a record i with unmet parents.                          *)
(***************************************************************************)
C30_CycleInspectionReturns == mainpc # "crashed"

(***************************************************************************)
(* C31: an include record whose source time is absent is never taken for   *)
(* directly dirty by the plan, whatever its artifact time is: a record is  *)
(* marked only if it or one of its ancestors is directly dirty and is not  *)
(* such an include.                                                        *)
(***************************************************************************)
MissingInclude(n) == is_include(kind[n]) /\ source_time[n] = {}

DirtyAndFound(n) == DirectlyDirty(n) /\ ~MissingInclude(n)

C31_MissingIncludeNeverDirectlyDirty ==
    (mainpc = "planned" /\ Acyclic) =>
        \A n \in Node :
            need_compile[n] =>
                \/ DirtyAndFound(n)
                \/ \E a \in Ancestors(n) : DirtyAndFound(a)

(***************************************************************************)
(* C32: when the compiler command of a record exits with status zero,      *)
(* compile_file stores the modification time of the artifact just written  *)
(* as the record's artifact time; when it exits with another status the    *)
(* partial artifact is deleted and compile_file returns a failure.         *)
(***************************************************************************)
CompileFileReturns(w) == wstate[w] = "task" /\ wstate'[w] # "task"

C32_ArtifactTimeIsOfArtifact ==
    [][\A w \in Worker :
          (CompileFileReturns(w) /\ ~compile_to_timestamp(kind[wfile[w]])) =>
              IF compiler_ok[wfile[w]]
              THEN /\ compiled_time'[wfile[w]] = disk_artifact'[wfile[w]]
                   /\ ~werr'[w]
              ELSE /\ disk_artifact'[wfile[w]] = {}
                   /\ werr'[w]]_vars

(***************************************************************************)
(* C33: include paths and module names are resolved apart: the edge a scan *)
(* adds for an `import X` leads to a record of kind MODULE whose           *)
(* module_name is X, never to an include record of the path X, and the     *)
(* edge it adds for an include leads to an include record of that path,    *)
(* never to the module provider of that name.                              *)
(***************************************************************************)
\* the scan of worker w adds an edge in this step
AddsEdge(w) ==
    /\ wstate[w] \in {"dep", "link"}
    /\ Len(files'[wfile[w] + 1].parents) > Len(files[wfile[w] + 1].parents)

ResolvedApart(w) ==
    LET f == files'[wfile[w] + 1]
        d == files[wfile[w] + 1].dependencies[wdep[w]]
        header == files'[f.parents[Len(f.parents)] + 1]
    IN IF d.type = "MODULE"
       THEN header.type = "MODULE" /\ d.path \in header.module_name
       ELSE is_include(header.type) /\ header.source_path = d.path

C33_ImportsAndIncludesResolvedApart ==
    [][\A w \in Worker : AddsEdge(w) => ResolvedApart(w)]_vars

(***************************************************************************)
(* The scanner on source text made of pieces: directives, comments that    *)
(* hold directives, tokens that begin with a keyword or stand before one,  *)
(* and the introducer `module;`.  Each piece carries what the              *)
(* specification says the scanner makes of it.                             *)
(***************************************************************************)
\* directives on lines of their own: the text, the events the spec gives it and
\* the module name it declares
PlainPieces ==
    {[text |-> <<"#", "i", "n", "c", "l", "u", "d", "e", " ", "\"", "a", "\"", "\n">>,
      events |-> <<[kind |-> "local", name |-> Bytes(<<"a">>)]>>, module |-> <<>>],
     [text |-> <<"#", "i", "n", "c", "l", "u", "d", "e", " ", "<", "a", ">", "\n">>,
      events |-> <<[kind |-> "system", name |-> Bytes(<<"a">>)]>>, module |-> <<>>],
     [text |-> <<"i", "m", "p", "o", "r", "t", " ", "a", ";", "\n">>,
      events |-> <<[kind |-> "import", name |-> Bytes(<<"a">>)]>>, module |-> <<>>],
     [text |-> <<"m", "o", "d", "u", "l", "e", " ", "a", ";", "\n">>,
      events |-> <<>>, module |-> Bytes(<<"a">>)]}

\* comments that hold a directive, in the states of the scanner that look for one
CommentPieces ==
    {[text |-> <<"/", "/", "i", "m", "p", "o", "r", "t", " ", "b", ";", "\n">>,
      events |-> <<>>, module |-> <<>>],
     [text |-> <<"/", "*", "i", "m", "p", "o", "r", "t", " ", "b", ";", "*", "/">>,
      events |-> <<>>, module |-> <<>>],
     [text |-> <<"/", "*", "\n", "m", "o", "d", "u", "l", "e", " ", "b", ";", "\n", "*", "/", "\n">>,
      events |-> <<>>, module |-> <<>>],
     [text |-> <<"/", "/", "#", "i", "n", "c", "l", "u", "d", "e", " ", "\"", "b", "\"", "\n">>,
      events |-> <<>>, module |-> <<>>],
     [text |-> <<"#", "i", "n", "c", "l", "u", "d", "e", " ", "/", "*", "i", "m", "p", "o", "r", "t", " ", "b", ";", "*", "/", "\"", "a", "\"", "\n">>,
      events |-> <<[kind |-> "local", name |-> Bytes(<<"a">>)]>>, module |-> <<>>],
     [text |-> <<"i", "m", "p", "o", "r", "t", " ", "/", "*", "m", "o", "d", "u", "l", "e", " ", "b", ";", "*", "/", "a", ";", "\n">>,
      events |-> <<[kind |-> "import", name |-> Bytes(<<"a">>)]>>, module |-> <<>>],
     [text |-> <<"i", "m", "p", "o", "r", "t", " ", "a", "/", "*", "i", "m", "p", "o", "r", "t", " ", "b", ";", "*", "/", ";", "\n">>,
      events |-> <<[kind |-> "import", name |-> Bytes(<<"a">>)]>>, module |-> <<>>],
     [text |-> <<"m", "o", "d", "u", "l", "e", " ", "a", "/", "/", "i", "m", "p", "o", "r", "t", " ", "b", ";", "\n">>,
      events |-> <<>>, module |-> Bytes(<<"a">>)],
     [text |-> <<"c", "/", "*", "i", "m", "p", "o", "r", "t", " ", "b", ";", "*", "/", ";", "\n">>,
      events |-> <<>>, module |-> <<>>]}

\* tokens that begin with a keyword
PrefixPieces ==
    {[text |-> <<"i", "m", "p", "o", "r", "t", "a", ";", "\n">>,
      events |-> <<>>, module |-> <<>>],
     [text |-> <<"m", "o", "d", "u", "l", "e", "b", ";", "\n">>,
      events |-> <<>>, module |-> <<>>],
     [text |-> <<"#", "i", "n", "c", "l", "u", "d", "e", "a", "\n">>,
      events |-> <<>>, module |-> <<>>]}

\* a keyword after another token of the same statement, and after a `;`
TokenPieces ==
    {[text |-> <<"b", " ", "i", "m", "p", "o", "r", "t", " ", "a", ";", "\n">>,
      events |-> <<>>, module |-> <<>>],
     [text |-> <<"b", " ", "m", "o", "d", "u", "l", "e", " ", "a", ";", "\n">>,
      events |-> <<>>, module |-> <<>>],
     [text |-> <<"b", " ", "#", "i", "n", "c", "l", "u", "d", "e", " ", "\"", "a", "\"", "\n">>,
      events |-> <<>>, module |-> <<>>],
     [text |-> <<"b", ";", "i", "m", "p", "o", "r", "t", " ", "a", ";", "\n">>,
      events |-> <<[kind |-> "import", name |-> Bytes(<<"a">>)]>>, module |-> <<>>]}

\* the introducer of the global module fragment
FragmentPieces ==
    {[text |-> <<"m", "o", "d", "u", "l", "e", ";", "\n">>,
      events |-> <<>>, module |-> <<>>],
     [text |-> <<"m", "o", "d", "u", "l", "e", ";", " ", "i", "m", "p", "o", "r", "t", " ", "a", ";", "\n">>,
      events |-> <<[kind |-> "import", name |-> Bytes(<<"a">>)]>>, module |-> <<>>]}

\* most pieces of one source text
MaxPieces == 2

TextPieces ==
    PlainPieces \cup CommentPieces \cup PrefixPieces \cup TokenPieces \cup FragmentPieces

PieceSeqs(P) == UNION {[1 .. n -> P] : n \in 0 .. MaxPieces}

\* the bytes of the pieces one after the other
RECURSIVE TextOf(_)
TextOf(ls) == IF ls = <<>> THEN <<>> ELSE Bytes(Head(ls).text) \o TextOf(Tail(ls))

\* the events of the pieces in their order, and the module name declared last
RECURSIVE EventsIn(_)
EventsIn(ls) == IF ls = <<>> THEN <<>> ELSE Head(ls).events \o EventsIn(Tail(ls))

RECURSIVE ModuleIn(_)
ModuleIn(ls) ==
    IF ls = <<>> THEN <<>>
    ELSE IF ModuleIn(Tail(ls)) # <<>> THEN ModuleIn(Tail(ls))
    ELSE Head(ls).module

InitText ==
    /\ scan_input \in {TextOf(ls) : ls \in PieceSeqs(TextPieces)}
    /\ parser = [NoParser EXCEPT !.label = "parse", !.is_open = TRUE,
                                 !.path = [k \in 1 .. PathSize |-> 0]]
    /\ BuildOff
    /\ mainpc = "scanner"
    /\ LiveOff
    /\ TreeOff
    /\ CmdOff
    /\ MapperOff

NextText == ParseStep

SpecText == InitText /\ [][NextText]_vars

\* the scan has returned OK with the events and the module name of the pieces
ScannedAs(ls) ==
    /\ parser.ret = "OK"
    /\ parser.events = EventsIn(ls)
    /\ parser.module_name = ModuleIn(ls)

\* the scan of a text made of pieces of P gives what the pieces say
ScansPieces(P) ==
    ParseReturned =>
        \A ls \in PieceSeqs(P) : TextOf(ls) = scan_input => ScannedAs(ls)

(***************************************************************************)
(* C34: a directive inside a line comment or inside a block comment, which *)
(* may span lines, gives no event in whatever state the scanner meets the  *)
(* comment, and a directive that directly follows the end of a comment is  *)
(* recognised.                                                             *)
(***************************************************************************)
C34_CommentsHideDirectives == ScansPieces(PlainPieces \cup CommentPieces)

\* a block comment with a directive in it, directly followed by a directive: the
\* scan has returned with the event of the second one only
C34_Witness ==
    /\ ParseReturned
    /\ \E c \in CommentPieces : \E d \in PlainPieces :
          /\ c.text[Len(c.text)] = "/"
          /\ c.events = <<>>
          /\ d.events # <<>>
          /\ scan_input = TextOf(<<c, d>>)
          /\ parser.events = d.events

(***************************************************************************)
(* C35: the scanner reads a directive only when the keyword is directly    *)
(* followed by white space, `<` or `"`: a token that only begins with      *)
(* `#include`, `import` or `module` gives no event and no module name.     *)
(***************************************************************************)
C35_KeywordNeedsDelimiter == ScansPieces(PlainPieces \cup PrefixPieces)

(***************************************************************************)
(* C36: from the token state the scanner returns to empty-space only at a  *)
(* newline or a `;`: a keyword after another token of the same statement   *)
(* gives no event, a keyword after a `;` does.                             *)
(***************************************************************************)
C36_TokenAbsorbsStatement == ScansPieces(PlainPieces \cup TokenPieces)

(***************************************************************************)
(* C37: after the scan the module name of the record is present iff the    *)
(* file declares a named module; the introducer `module;` of the global    *)
(* module fragment gives none.                                             *)
(***************************************************************************)
C37_ModuleNameIffNamedModule ==
    ParseReturned =>
        \A ls \in PieceSeqs(PlainPieces \cup FragmentPieces) :
            TextOf(ls) = scan_input => parser.module_name = ModuleIn(ls)

(***************************************************************************)
(* C38: on each tick the cursor of the live engine moves to the next       *)
(* record of kind UNIT: the record a tick examines is a unit whenever the  *)
(* engine has one.                                                         *)
(***************************************************************************)
Tick == livepc = "running" /\ path_index' # path_index

C38_TickExaminesUnit ==
    [][(Tick /\ \E n \in Node : kind[n] = "UNIT") => kind[path_index'] = "UNIT"]_vars

(***************************************************************************)
(* C39: the live compiles of a session write to the temp files tmp<N>.so   *)
(* with N = 0, 1, 2, ... in this order: no two of them, successful or      *)
(* failed, use the same path.                                              *)
(***************************************************************************)
C39_LiveCompilesNumberedApart ==
    /\ \A i, j \in DOMAIN temporary_files :
          temporary_files[i] = temporary_files[j] => i = j
    /\ LET tmps == SelectSeq(temporary_files, LAMBDA p : p.dir = "tmp")
       IN \A k \in DOMAIN tmps : tmps[k] = TmpPath(k - 1)

(***************************************************************************)
(* C40: every path in the list of temporary files is a temp file           *)
(* tmp<N>.so, whatever the kind of the record that was live-compiled, so   *)
(* that the shutdown removes temp files only and leaves the regular        *)
(* artifact of every record as it was.                                     *)
(***************************************************************************)
C40_OnlyTempFilesListedAndRemoved ==
    /\ \A p \in Range(temporary_files) \cup removed_files : p.dir = "tmp"
    /\ \A n \in Node : files_on_disk[ObjPath(n)] # {}

====
